---- MODULE Spec2Model ----
(***************************************************************************)
(* msawangwan/weather: the weather request handler ReportLocationWeather   *)
(* (package main), the store operations it calls (package db) and the      *)
(* provider gateway (package api), over a postgres store with the tables   *)
(* locations(id serial, city_name unique, query_count) and                 *)
(* weather(location_id, labels, temp_high real, temp_low real, at_time).   *)
(*                                                                         *)
(* Every request is served on its own goroutine: a worker p of Procs runs  *)
(* one handler at a time, and the statements a handler sends to the store  *)
(* interleave with those of the other workers.  Postgres runs at READ      *)
(* COMMITTED: a statement sees committed rows only, and an upsert of a     *)
(* city name waits for an open transaction that has written that name.     *)
(***************************************************************************)
EXTENDS Integers, Sequences, FiniteSets, TLC

\* ------------------------------------------------------------------ bounds
\* goroutines serving requests concurrently
MaxProcs == 2
\* requests received in one behaviour
MaxRequests == 2
\* the clock stops after this many ticks
MaxTime == 1
\* clock ticks in one minute
TicksPerMinute == 1
\* calls to the store or to the gateway that fail in one behaviour
MaxFaults == 1
\* account requests in one behaviour
MaxAccountRequests == 3
\* readings in a history that the statistics are computed from
MaxReadings == 3
\* readings in a history that a report of several statistics is asked on
MaxReportReadings == 2
\* the largest retry count that Establish is called with on its own
MaxRetryCount == 3
\* the last day, counted from day 0, on which a reading of such a history
\* was captured
MaxDay == 2
\* days in one month
DaysPerMonth == 2

\* ------------------------------------------------------- program constants
cacheTTLMinutes == 1
\* spacing of the values a postgres `real` column can hold, in model units
RealUlp == 4
StatusOK == 200
StatusAccepted == 202
StatusMethodNotAllowed == 405
StatusInternalServerError == 500
\* main: the retries and the seconds between them that it gives Establish
maxNumRetries == 10
retryIntervalSec == 2
\* the commands of data/init.db.sql as ExecFrom splits them on ";": four
\* drops, four creates and the text after the last ";"
NumCommands == 9

Procs == 1..MaxProcs

\* an optional value (a Go pointer): <<>> is nil, <<x>> points to x
Nil == <<>>
Some(x) == <<x>>
Val(o) == o[1]

\* ------------------------------------------------------------- city names
\* a name is a sequence of one-letter strings
Upper(c) ==
  CASE c = "r" -> "R" [] c = "e" -> "E" [] c = "n" -> "N" [] c = "o" -> "O"
    [] c = "l" -> "L" [] OTHER -> c

IsLetter(c) == c # " "

\* strings.Title: the first letter of every word is upper-cased, every
\* other letter is left as it is
Title(s) ==
  [i \in 1..Len(s) |->
     IF i = 1 \/ ~IsLetter(s[i - 1]) THEN Upper(s[i]) ELSE s[i]]

\* the values of the query parameter `city` that requests carry
CityParams ==
  { <<"r", "e", "n", "o">>, <<"R", "e", "n", "o">>, <<"l", "o", "n">> }

CityNames == { Title(c) : c \in CityParams }

Methods == { "GET", "POST" }

\* ------------------------------------------------------------- the gateway
\* float64 -> real: round to the nearest value the column can hold, ties to
\* the even one
ToReal(x) ==
  LET q == x \div RealUlp
      r == x % RealUlp
  IN  IF 2 * r < RealUlp THEN q * RealUlp
      ELSE IF 2 * r > RealUlp THEN (q + 1) * RealUlp
      ELSE IF q % 2 = 0 THEN q * RealUlp ELSE (q + 1) * RealUlp

\* api.Location as the handler reads it: Cod, Main.TempMin, Main.TempMax,
\* the labels of Weather, Message.  What the provider reports for a city
\* it knows depends on the city asked for
ProviderOK(name) ==
  IF name[1] = "R"
  THEN [Cod |-> 200, TempMin |-> 9, TempMax |-> 15,
        Weather |-> <<"Rain", "Clear">>, Message |-> Nil]
  ELSE [Cod |-> 200, TempMin |-> 8, TempMax |-> 12,
        Weather |-> <<"Clear">>, Message |-> Nil]

ProviderFail ==
  { [Cod |-> 404, TempMin |-> 0, TempMax |-> 0,
     Weather |-> <<>>, Message |-> Some("city not found")],
    [Cod |-> 500, TempMin |-> 0, TempMax |-> 0,
     Weather |-> <<>>, Message |-> Nil] }

\* FetchCurrentWeatherByLocationName(name) returns (location, nil) or
\* (nil, err)
GatewayResults(name) ==
  { [location |-> Some(l), err |-> "nil"] : l \in { ProviderOK(name) } \cup ProviderFail }
    \cup { [location |-> Nil, err |-> "gateway error"] }

\* Location.WeatherLabels
WeatherLabels(l) == [i \in 1..Len(l.Weather) |-> l.Weather[i]]

UnknownReason == "failed to communicate with the openweather api: unknown reason"

\* the handler's test of the gateway's answer: location.Cod != 200
ProviderFailed(location) == location.Cod # 200

\* variant: every failed answer gets the generic text
ProviderMessage_Generic(location) == UnknownReason

\* the text sent for a failed answer: the provider's message when there is
\* one, the generic text otherwise
ProviderMessage(location) ==
  IF location.Message # Nil THEN Val(location.Message) ELSE UnknownReason

\* ------------------------------------------------- statistics: the values
\* a float64 of the statistics, kept exactly: a fraction in lowest terms,
\* with NaN (0/0) and +Inf (x/0) as the divisions by zero of a float64
RECURSIVE GCD(_, _)
GCD(a, b) == IF b = 0 THEN a ELSE GCD(b, a % b)

NaN == [num |-> 0, den |-> 0]
Inf == [num |-> 1, den |-> 0]

Frac(n, d) ==
  IF d = 0 THEN (IF n = 0 THEN NaN ELSE Inf)
  ELSE LET g == GCD(n, d) IN [num |-> n \div g, den |-> d \div g]

Float64(n) == Frac(n, 1)

FAdd(a, b) ==
  IF a.den = 0 THEN a
  ELSE IF b.den = 0 THEN b
  ELSE Frac(a.num * b.den + b.num * a.den, a.den * b.den)

\* a / float64(k) for a count k
FDiv(a, k) ==
  IF a.den = 0 THEN a
  ELSE Frac(a.num, a.den * k)

\* a column value that is NULL (sql.NullFloat64 with Valid = false); the
\* temperatures are in Kelvin and never negative
Null == -1

\* t.Date() of an at_time: the clock counts ticks, a day has TicksPerDay
\* of them, a month DaysPerMonth days
TicksPerDay == 1440 * TicksPerMinute
MonthsPerYear == 12
FirstYear == 2019

Date(t) ==
  LET day == t \div TicksPerDay
      month == day \div DaysPerMonth
  IN  [y  |-> FirstYear + (month \div MonthsPerYear),
       mo |-> 1 + (month % MonthsPerYear),
       d  |-> 1 + (day % DaysPerMonth)]

\* --------------------------------------------------- statistics: the maps
\* a Go map: a function whose domain is the set of its keys
EmptyMap == <<>>

HasKey(m, k) == k \in DOMAIN m

MapPut(m, k, v) == (k :> v) @@ m

\* variant: the day's list is made anew on every call
InitialiseForDate_Reset(q, city, y, mo, d) ==
  LET q1 == IF HasKey(q, city) THEN q ELSE MapPut(q, city, EmptyMap)
      q2 == IF HasKey(q1[city], y) THEN q1
            ELSE [q1 EXCEPT ![city] = MapPut(@, y, EmptyMap)]
      q3 == IF HasKey(q2[city][y], mo) THEN q2
            ELSE [q2 EXCEPT ![city][y] = MapPut(@, mo, EmptyMap)]
  IN  [q3 EXCEPT ![city][y][mo] = MapPut(@, d, <<>>)]

\* LocationTemperatureQueryResult.InitialiseForDate: every map on the path
\* city, y, mo and the list at d are made when they are missing
InitialiseForDate(q, city, y, mo, d) ==
  LET q1 == IF HasKey(q, city) THEN q ELSE MapPut(q, city, EmptyMap)
      q2 == IF HasKey(q1[city], y) THEN q1
            ELSE [q1 EXCEPT ![city] = MapPut(@, y, EmptyMap)]
      q3 == IF HasKey(q2[city][y], mo) THEN q2
            ELSE [q2 EXCEPT ![city][y] = MapPut(@, mo, EmptyMap)]
  IN  IF HasKey(q3[city][y][mo], d) THEN q3
      ELSE [q3 EXCEPT ![city][y][mo] = MapPut(@, d, <<>>)]

\* variant: the sample takes the place of the list of the day
Add_Overwrite(q, temp, city, y, mo, d) ==
  [q EXCEPT ![city][y][mo][d] = << temp >>]

\* LocationTemperatureQueryResult.Add: append to the list of the day
Add(q, temp, city, y, mo, d) ==
  [q EXCEPT ![city][y][mo][d] = Append(@, temp)]

\* the paths (city, y, mo, d) a result holds, and its list at a path
Paths(q) ==
  UNION { UNION { UNION { { <<c, y, mo, d>> : d \in DOMAIN q[c][y][mo] }
                          : mo \in DOMAIN q[c][y] }
                  : y \in DOMAIN q[c] }
          : c \in DOMAIN q }

Leaf(q, k) == q[k[1]][k[2]][k[3]][k[4]]

\* ------------------------------------------------ statistics: the queries
FilterLows == <<"l", "o", "w", "s">>
FilterHighs == <<"h", "i", "g", "h", "s">>
FilterAverages == <<"a", "v", "g", "s">>

InvalidFilter(f) == <<"invalid reporting filter: ", f>>

\* the loop over the rows in MonthlyTemperature: the path of the row's
\* date is made, then the value of the selected column is added unless it
\* is NULL
RECURSIVE ScanTemperatures(_, _, _)
ScanTemperatures(rows, param, temps) ==
  IF rows = <<>> THEN temps
  ELSE LET r  == Head(rows)
           t  == Date(r.at_time)
           q  == InitialiseForDate(temps, r.cname, t.y, t.mo, t.d)
       IN  ScanTemperatures(Tail(rows), param,
             IF r[param] = Null THEN q
             ELSE Add(q, Float64(r[param]), r.cname, t.y, t.mo, t.d))

\* MonthlyTemperature(f) on the rows its select returned (queryErr: the
\* select or a scan failed)
MonthlyTemperature(f, queryErr, rows) ==
  IF f \notin { FilterLows, FilterHighs }
  THEN [temps |-> Nil, err |-> InvalidFilter(f)]
  ELSE IF queryErr THEN [temps |-> Nil, err |-> "storage error"]
  ELSE [temps |-> Some(ScanTemperatures(rows,
                         IF f = FilterHighs THEN "temp_high" ELSE "temp_low",
                         EmptyMap)),
        err |-> "nil"]

\* the first loop of MonthlyAverageTemperature: the path of the row's date
\* is made, then (temp_low + temp_high) / 2 is added unless one of the two
\* is NULL
RECURSIVE ScanMidpoints(_, _)
ScanMidpoints(rows, temps) ==
  IF rows = <<>> THEN temps
  ELSE LET r  == Head(rows)
           t  == Date(r.at_time)
           q  == InitialiseForDate(temps, r.cname, t.y, t.mo, t.d)
       IN  ScanMidpoints(Tail(rows),
             IF r.temp_low = Null \/ r.temp_high = Null THEN q
             ELSE Add(q, Frac(r.temp_low + r.temp_high, 2),
                      r.cname, t.y, t.mo, t.d))

RECURSIVE SumFloats(_)
SumFloats(s) ==
  IF s = <<>> THEN Float64(0) ELSE FAdd(Head(s), SumFloats(Tail(s)))

\* the inner loops over one month: avg is the sum of all its samples,
\* samplesPerMonth counts its days, samplesPerDay counts its samples (the
\* counter is not reset from one day to the next)
RECURSIVE MonthTotals(_, _)
MonthTotals(month, days) ==
  IF days = {} THEN [avg |-> Float64(0), samplesPerMonth |-> 0, samplesPerDay |-> 0]
  ELSE LET d    == CHOOSE x \in days : TRUE
           rest == MonthTotals(month, days \ { d })
       IN  [avg |-> FAdd(rest.avg, SumFloats(month[d])),
            samplesPerMonth |-> rest.samplesPerMonth + 1,
            samplesPerDay |-> rest.samplesPerDay + Len(month[d])]

\* avg /= float64(samplesPerDay); avg /= float64(samplesPerMonth)
MonthAverage(month) ==
  LET t == MonthTotals(month, DOMAIN month)
  IN  FDiv(FDiv(t.avg, t.samplesPerDay), t.samplesPerMonth)

\* the months (city, y, mo) a result holds
Months(q) ==
  UNION { UNION { { <<c, y, mo>> : mo \in DOMAIN q[c][y] } : y \in DOMAIN q[c] }
          : c \in DOMAIN q }

\* the day key under which the average of a month is stored
AverageDay == 0

\* variant: the average of a month is stored under its first day
StoreAverage_FirstDay(q, avg, c, y, mo) ==
  Add(InitialiseForDate(q, c, y, mo, 1), avg, c, y, mo, 1)

\* monthlyAvgTemps.InitialiseForDate(c, y, m, 0) and
\* monthlyAvgTemps.Add(avg, c, y, m, 0)
StoreAverage(q, avg, c, y, mo) ==
  Add(InitialiseForDate(q, c, y, mo, AverageDay), avg, c, y, mo, AverageDay)

\* the second loop of MonthlyAverageTemperature: the average of every
\* month of the daily structure is stored under day 0 of that month
RECURSIVE MonthlyAverages(_, _, _)
MonthlyAverages(daily, months, q) ==
  IF months = {} THEN q
  ELSE LET k == CHOOSE x \in months : TRUE
       IN  MonthlyAverages(daily, months \ { k },
             StoreAverage(q, MonthAverage(daily[k[1]][k[2]][k[3]]),
                          k[1], k[2], k[3]))

\* MonthlyAverageTemperature() on the rows its select returned
MonthlyAverageTemperature(queryErr, rows) ==
  IF queryErr THEN [daily |-> Nil, temps |-> Nil, err |-> "storage error"]
  ELSE LET daily == ScanMidpoints(rows, EmptyMap)
       IN  [daily |-> Some(daily),
            temps |-> Some(MonthlyAverages(daily, Months(daily), EmptyMap)),
            err |-> "nil"]

\* ------------------------------------------------------------------ state
VARIABLES
  locations,   \* table locations: set of [id, city_name, query_count]
  weather,     \* table weather: sequence of rows, in insertion order
  nextId,      \* the serial behind locations.id
  now,         \* the clock
  h,           \* per worker: the frame of the handler it runs
  last,        \* the frame of the handler that returned last, with its response
  stat,        \* the statistics call that returned last, with its result
  served,      \* requests received so far
  faults,      \* calls that have failed so far
  commits,     \* per city name: refresh transactions committed
  hits,        \* per city name: IncrQueryCount calls completed
  accounts,    \* table accounts: set of [id, user_name]
  bookmarks,   \* table bookmarks: set of [id, location_ids]
  accountSeq,  \* the serial behind accounts.id
  ah,          \* per worker: the frame of the account handler it runs
  alast,       \* the frame of the account handler that returned last
  aserved,     \* account requests received so far
  dbc,         \* GlobalConn.DB: "nil" or the handle that sql.Open returned
  est,         \* the frame of the call of Connection.Establish
  proc         \* the process: where the goroutine and main stand, the ready channel

accountVars == <<accounts, bookmarks, accountSeq, ah, alast, aserved>>

startVars == <<dbc, est, proc>>

vars == <<locations, weather, nextId, now, h, last, stat, served, faults, commits, hits,
          accountVars, startVars>>

NoTxn == [status |-> "none", loc |-> Nil, wrow |-> Nil]

NoResp == [status |-> 0, kind |-> "none", message |-> "", body |-> Nil]

IdleFrame ==
  [pc |-> "idle", method |-> "GET", cityName |-> <<>>, refresh |-> TRUE,
   scan |-> Nil, lr |-> Nil, wr |-> Nil, location |-> Nil, err |-> "nil",
   ret |-> [lr |-> Nil, wr |-> Nil, err |-> "nil"], txn |-> NoTxn,
   resp |-> NoResp, gwCalls |-> 0, gwName |-> <<>>, writes |-> 0,
   scanErr |-> "none", seen |-> Nil, own |-> "unknown", outcome |-> "none",
   committed |-> FALSE, snap |-> Nil]

\* ------------------------------------------------------ response helpers
\* sendJSON: status 200 and the payload
sendJSON(payload) ==
  [status |-> StatusOK, kind |-> "json", message |-> "", body |-> Some(payload)]

\* sendMessage: status 200 and {"message": m}
sendMessage(m) ==
  [status |-> StatusOK, kind |-> "message", message |-> m, body |-> Nil]

methodError(er) ==
  [status |-> StatusMethodNotAllowed, kind |-> "error", message |-> er, body |-> Nil]

internalServerError(er) ==
  [status |-> StatusInternalServerError, kind |-> "error", message |-> er, body |-> Nil]

\* a nil pointer dereference: net/http recovers the panic and closes the
\* connection without a response
Panicked ==
  [status |-> 0, kind |-> "panic", message |-> "nil pointer dereference", body |-> Nil]

\* ------------------------------------------------------- store: reading
ErrNoRows == "sql: no rows in result set"

TTL == cacheTTLMinutes * TicksPerMinute

SetMax(S) == CHOOSE x \in S : \A y \in S : y <= x

RowsOfWeather == { weather[i] : i \in DOMAIN weather }

\* the rows of the select in FetchLocationWeather: the cross product of
\* locations and weather, restricted to the city name and to the readings
\* whose at_time is the maximum over the whole weather table
QueryRows(cityName) ==
  LET maxAt == SetMax({ w.at_time : w \in RowsOfWeather })
  IN  { [location |-> l, weather |-> w] :
          l \in { x \in locations : x.city_name = cityName },
          w \in { x \in RowsOfWeather : x.at_time = maxAt } }

\* what QueryRow(...).Scan can give: a storage error, ErrNoRows when the
\* select has no row, or nil with the first row (any row: the select has
\* no order) scanned into lr and wr
ScanOutcomes(cityName) ==
  { [err |-> "storage error", row |-> Nil] }
    \cup (IF QueryRows(cityName) = {}
          THEN { [err |-> ErrNoRows, row |-> Nil] }
          ELSE { [err |-> "nil", row |-> Some(r)] : r \in QueryRows(cityName) })

\* variant: the switch reaches its default case when the scan succeeded
FetchLocationWeatherResult_Default(err, row) ==
  IF err = ErrNoRows THEN [query |-> Nil, err |-> "nil"]
  ELSE IF err # "nil" THEN [query |-> Nil, err |-> err]
  ELSE [query |-> row, err |-> "nil"]

\* variant: every scan error is taken for "no rows"
FetchLocationWeatherResult_Swallow(err, row) ==
  [query |-> Nil, err |-> "nil"]

\* the switch on the scan error that ends FetchLocationWeather:
\*   case sql.ErrNoRows: return nil, nil
\*   case err:           return nil, err
\*   default:            return QueryResult{lr, wr}, nil
\* the second case compares the switch value with itself
FetchLocationWeatherResult(err, row) ==
  IF err = ErrNoRows THEN [query |-> Nil, err |-> "nil"]
  ELSE IF err = err THEN [query |-> Nil, err |-> err]
  ELSE [query |-> row, err |-> "nil"]

\* parseRows: the location and the weather row of a QueryResult, nil for
\* a nil QueryResult
parseRows(q) ==
  IF q = Nil THEN [lr |-> Nil, wr |-> Nil]
  ELSE [lr |-> Some(Val(q).location), wr |-> Some(Val(q).weather)]

\* the readings of the named city itself and the time of its latest one,
\* as the store holds them when the lookup runs, and where that reading
\* stands against the TTL when the handler reads the clock (not program
\* state: the facts of the request, recorded for the properties)
OwnReadings(cityName) ==
  { w \in RowsOfWeather :
      \E l \in locations : l.city_name = cityName /\ l.id = w.location_id }

OwnLatest(cityName) ==
  IF OwnReadings(cityName) = {} THEN Nil
  ELSE Some(SetMax({ w.at_time : w \in OwnReadings(cityName) }))

OwnState(seen) ==
  IF seen = Nil THEN "none"
  ELSE IF now - Val(seen) < TTL THEN "fresh" ELSE "stale"

\* what the store holds for a city when a handler calls the gateway: the
\* committed refreshes so far, the query_count of its row (0 without a row)
\* and the number of readings of its row (not program state: the facts of
\* the request, recorded for the properties)
ReadingsOf(cityName, locs, wrows) ==
  { i \in DOMAIN wrows :
      \E l \in locs : l.city_name = cityName /\ l.id = wrows[i].location_id }

Snapshot(cityName) ==
  LET rows == { l \in locations : l.city_name = cityName }
  IN  [commits |-> commits[cityName],
       qc |-> IF rows = {} THEN 0 ELSE (CHOOSE l \in rows : TRUE).query_count,
       readings |-> Cardinality(ReadingsOf(cityName, locations, weather))]

\* ------------------------------------------------------- store: writing
\* variant: no row lock, an upsert never waits for an open transaction
Locked_Never(cityName, p) == FALSE

\* a city name is locked while an open transaction has upserted it
Locked(cityName, p) ==
  \E q \in Procs \ {p} :
    /\ h[q].txn.status # "none"
    /\ h[q].txn.loc # Nil
    /\ Val(h[q].txn.loc).city_name = cityName

\* IncrQueryCount: update locations set query_count = $2 where city_name = $1
\* with $2 = lr.QueryCount + 1, the count this handler read earlier
IncrQueryCount(lr) ==
  { IF l.city_name = lr.city_name
    THEN [l EXCEPT !.query_count = lr.query_count + 1] ELSE l : l \in locations }

\* variant: on conflict the count is set to the inserted value
UpsertRow_Excluded(cityName) ==
  IF \E l \in locations : l.city_name = cityName
  THEN LET l == CHOOSE x \in locations : x.city_name = cityName
       IN  [l EXCEPT !.query_count = 1]
  ELSE [id |-> nextId, city_name |-> cityName, query_count |-> 1]

\* variant: on conflict a second row is made
UpsertRow_Duplicate(cityName) ==
  [id |-> nextId, city_name |-> cityName,
   query_count |-> IF \E l \in locations : l.city_name = cityName
                   THEN (CHOOSE x \in locations : x.city_name = cityName).query_count + 1
                   ELSE 1]

\* insert into locations (city_name, query_count) values ($1, 1)
\* on conflict (city_name) do update set query_count = query_count + 1
\* returning id, city_name, query_count
UpsertRow(cityName) ==
  IF \E l \in locations : l.city_name = cityName
  THEN LET l == CHOOSE x \in locations : x.city_name = cityName
       IN  [l EXCEPT !.query_count = l.query_count + 1]
  ELSE [id |-> nextId, city_name |-> cityName, query_count |-> 1]

\* variant: the two temperatures change places
WeatherInsertRow_Swapped(lr, labels, tempMin, tempMax, atTime) ==
  [location_id |-> lr.id, labels |-> labels,
   temp_low |-> ToReal(tempMax), temp_high |-> ToReal(tempMin),
   at_time |-> atTime]

\* insert into weather (location_id, labels, temp_low, temp_high, at_time)
\* values ($1, $2, $3, $4, $5) with $3 = tempMin, $4 = tempMax
WeatherInsertRow(lr, labels, tempMin, tempMax, atTime) ==
  [location_id |-> lr.id, labels |-> labels,
   temp_low |-> ToReal(tempMin), temp_high |-> ToReal(tempMax),
   at_time |-> atTime]

\* variant: the committed row replaces the table
CommitLocation_Replace(row) == { row }

\* the locations table once a transaction that upserted row commits
CommitLocation(row) ==
  { l \in locations : l.city_name # row.city_name } \cup { row }

\* ------------------------------------------- statistics: labels and counts
Range(s) == { s[i] : i \in DOMAIN s }

\* variant: every label is taken for a new one
Unseen_Always(l, labels) == TRUE

\* the test on uniqueLabels: the label has not been appended yet
Unseen(l, labels) == l \notin Range(labels)

\* the inner loop of KnownWeatherLabels over the labels of one row
RECURSIVE AppendLabels(_, _)
AppendLabels(ls, labels) ==
  IF ls = <<>> THEN labels
  ELSE AppendLabels(Tail(ls),
         IF Unseen(Head(ls), labels) THEN Append(labels, Head(ls)) ELSE labels)

\* the loop of KnownWeatherLabels over the rows
RECURSIVE ScanLabels(_, _)
ScanLabels(rows, labels) ==
  IF rows = <<>> THEN labels
  ELSE ScanLabels(Tail(rows), AppendLabels(Head(rows), labels))

\* KnownWeatherLabels() on the rows its select returned
KnownWeatherLabels(queryErr, rows) ==
  IF queryErr THEN [labels |-> Nil, err |-> "storage error"]
  ELSE [labels |-> Some(ScanLabels(rows, <<>>)), err |-> "nil"]

\* the sequences that list the elements of a set once each, in any order
RECURSIVE Orders(_)
Orders(S) ==
  IF S = {} THEN { <<>> }
  ELSE UNION { { <<x>> \o t : t \in Orders(S \ { x }) } : x \in S }

\* the labels columns that the select of KnownWeatherLabels returns: those
\* of all readings, in any order (the select has no order)
LabelRows ==
  { [k \in DOMAIN o |-> weather[o[k]].labels] : o \in Orders(DOMAIN weather) }

RECURSIVE SumOf(_, _)
SumOf(f, S) ==
  IF S = {} THEN 0
  ELSE LET x == CHOOSE y \in S : TRUE IN f[x] + SumOf(f, S \ { x })

\* variant: the rows are counted
TotalQueryCount_Rows(queryErr, locs) ==
  IF queryErr THEN [count |-> 0, err |-> "storage error"]
  ELSE [count |-> Cardinality(locs), err |-> "nil"]

\* TotalQueryCount() on the locations table: select sum(query_count) is
\* NULL on an empty table, and the function returns 0 for it
TotalQueryCount(queryErr, locs) ==
  IF queryErr THEN [count |-> 0, err |-> "storage error"]
  ELSE IF locs = {} THEN [count |-> 0, err |-> "nil"]
  ELSE [count |-> SumOf([l \in locs |-> l.query_count], locs), err |-> "nil"]

\* ------------------------------------------------ statistics: the handler
\* the rows of the select of MonthlyTemperature and of
\* MonthlyAverageTemperature: locations joined with weather on the id, in
\* an order that descends in at_time (rows of one at_time come in any order)
Joined == { i \in DOMAIN weather : \E l \in locations : l.id = weather[i].location_id }

JoinRow(i) ==
  LET l == CHOOSE x \in locations : x.id = weather[i].location_id
  IN  [cname |-> l.city_name, id |-> l.id, lid |-> weather[i].location_id,
       at_time |-> weather[i].at_time,
       temp_low |-> weather[i].temp_low, temp_high |-> weather[i].temp_high]

RowOrders ==
  LET n == Cardinality(Joined)
  IN  { [k \in 1..n |-> JoinRow(f[k])] :
          f \in { g \in [1..n -> Joined] :
                    /\ \A a, b \in 1..n : a # b => g[a] # g[b]
                    /\ \A a, b \in 1..n :
                         a < b => weather[g[a]].at_time >= weather[g[b]].at_time } }

\* strings.ToLower
Lower(c) ==
  CASE c = "L" -> "l" [] c = "H" -> "h" [] c = "A" -> "a" [] c = "B" -> "b"
    [] c = "R" -> "r" [] c = "E" -> "e" [] c = "N" -> "n" [] c = "O" -> "o"
    [] OTHER -> c

ToLower(s) == [i \in 1..Len(s) |-> Lower(s[i])]

\* hasParam: some value of the parameter, in lower case, is a target
hasParam(p, targets) == \E i \in DOMAIN p : ToLower(p[i]) \in targets

\* the values of the query parameter `temp` that requests carry; <<>> is a
\* request without a query string
TempParams ==
  { <<>>,
    << <<"b", "o", "g", "u", "s">> >>,
    << <<"L", "o", "w", "s">> >>,
    << FilterLows >>,
    << FilterHighs, <<"b", "o", "g", "u", "s">> >>,
    << FilterAverages >> }

\* what the store does for one select: it fails, or it returns the rows
\* in one of their orders
StoreAnswers ==
  { [queryErr |-> TRUE, rows |-> <<>>] }
    \cup { [queryErr |-> FALSE, rows |-> r] : r \in RowOrders }

\* the values of temp that make a select: the others are refused by
\* MonthlyTemperature before it reaches the store
Selects(p) ==
  Cardinality({ i \in DOMAIN p :
                  p[i] \in { FilterLows, FilterHighs, FilterAverages } })

\* the loop over the values of temp: one report per value, the first error
\* ends the request.  calls holds what the store does for the selects
RECURSIVE TemperatureReports(_, _, _)
TemperatureReports(p, calls, temps) ==
  IF p = <<>> THEN [temps |-> Some(temps), err |-> "nil"]
  ELSE LET f == Head(p)
           selects == f \in { FilterLows, FilterHighs, FilterAverages }
           r == IF f = FilterAverages
                THEN MonthlyAverageTemperature(Head(calls).queryErr, Head(calls).rows)
                ELSE IF selects
                THEN MonthlyTemperature(f, Head(calls).queryErr, Head(calls).rows)
                ELSE MonthlyTemperature(f, FALSE, <<>>)
       IN  IF r.err # "nil" THEN [temps |-> Nil, err |-> r.err]
           ELSE TemperatureReports(Tail(p),
                                   IF selects THEN Tail(calls) ELSE calls,
                                   MapPut(temps, f, Val(r.temps)))

\* a value that encoding/json refuses: a NaN or an infinite float64
Unencodable(temps) ==
  \E f \in DOMAIN temps : \E k \in Paths(temps[f]) :
    \E i \in DOMAIN Leaf(temps[f], k) : Leaf(temps[f], k)[i].den = 0

\* sendJSON of the stats map: the encoder writes nothing when it fails,
\* and the response is status 200 with an empty body
sendStats(stats) ==
  IF HasKey(stats, "temperatures") /\ Unencodable(stats["temperatures"])
  THEN [status |-> StatusOK, kind |-> "empty", message |-> "", body |-> Nil]
  ELSE sendJSON(stats)

\* variant: the document is sent without a status of its own
sendDoc_OK == [status |-> StatusOK, kind |-> "doc", message |-> "", body |-> Nil]

\* sendDoc: WriteHeader(202) and the list of the valid query parameters
sendDoc == [status |-> StatusAccepted, kind |-> "doc", message |-> "", body |-> Nil]

\* ReportWeatherStatistics for a request whose query string carries the
\* values p of temp and no other parameter
ReportWeatherStatistics(method, parsed, p, calls) ==
  IF method # "GET" THEN methodError("HTTP method must be GET")
  ELSE IF ~parsed THEN internalServerError("invalid URL escape")
  ELSE IF p = <<>> THEN sendDoc
  ELSE IF ~hasParam(p, { FilterLows, FilterHighs, FilterAverages })
  THEN sendStats(EmptyMap)
  ELSE LET r == TemperatureReports(p, calls, EmptyMap)
       IN  IF r.err # "nil" THEN internalServerError(r.err)
           ELSE sendStats(MapPut(EmptyMap, "temperatures", Val(r.temps)))

\* no statistics call has returned
NoStat ==
  [op |-> "none", arg |-> <<>>, rows |-> <<>>, daily |-> Nil, temps |-> Nil,
   value |-> Nil, err |-> "nil", resp |-> NoResp]

\* ------------------------------------------ statistics: the daily summary
\* the rows of the select of DailyWeatherSummary: locations joined with
\* weather on the id, in an order that descends in at_time
SummaryRow(i) ==
  [cname |-> (CHOOSE x \in locations : x.id = weather[i].location_id).city_name,
   at_time |-> weather[i].at_time, labels |-> weather[i].labels]

SummaryOrders ==
  { [k \in DOMAIN o |-> SummaryRow(o[k])] :
      o \in { x \in Orders(Joined) :
                \A a, b \in DOMAIN x :
                  a < b => weather[x[a]].at_time >= weather[x[b]].at_time } }

\* the inner loop of DailyWeatherSummary: the entry of the row is appended
\* to the list of each of the row's labels
RECURSIVE AppendEntries(_, _, _)
AppendEntries(ls, entry, summary) ==
  IF ls = <<>> THEN summary
  ELSE LET l == Head(ls)
           list == IF HasKey(summary, l) THEN summary[l] ELSE <<>>
       IN  AppendEntries(Tail(ls), entry, MapPut(summary, l, Append(list, entry)))

\* the loop of DailyWeatherSummary over the rows
RECURSIVE ScanSummary(_, _)
ScanSummary(rows, summary) ==
  IF rows = <<>> THEN summary
  ELSE ScanSummary(Tail(rows),
         AppendEntries(Head(rows).labels,
                       [CityName |-> Head(rows).cname, Date |-> Head(rows).at_time],
                       summary))

\* DailyWeatherSummary() on the rows its select returned
DailyWeatherSummary(queryErr, rows) ==
  IF queryErr THEN [summary |-> Nil, err |-> "storage error"]
  ELSE [summary |-> Some(ScanSummary(rows, EmptyMap)), err |-> "nil"]

\* ------------------------------------------- statistics: the whole handler
\* the values of the query parameters count and summary
Query == <<"q", "u", "e", "r", "y">>
LabelsWord == <<"l", "a", "b", "e", "l", "s">>
Day == <<"d", "a", "y">>

\* the query strings of the requests: the values of each parameter, <<>>
\* for a parameter that the query string does not carry
QueryStrings ==
  { [count |-> <<>>, summary |-> <<>>, temp |-> <<>>],
    [count |-> <<Query>>, summary |-> <<>>, temp |-> <<>>],
    [count |-> <<LabelsWord, Query>>, summary |-> <<>>, temp |-> <<>>],
    [count |-> <<>>, summary |-> <<Day>>, temp |-> <<>>],
    [count |-> <<Day>>, summary |-> <<>>, temp |-> <<>>],
    [count |-> <<Query>>, summary |-> <<Day>>, temp |-> <<FilterLows>>] }

\* the keys of url.Values: the parameters that the query string carries
Keys(params) == { q \in { "count", "summary", "temp" } : params[q] # <<>> }

\* case "count": TotalQueryCount for the value query, KnownWeatherLabels
\* for the value labels
CountReports(p, store, acc) ==
  LET asked == hasParam(p, { Query })
      c == TotalQueryCount(store.count, locations)
      a1 == IF asked /\ c.err = "nil"
            THEN [stats |-> MapPut(acc.stats, "count", [location_queries |-> c.count]),
                  reads |-> acc.reads + 1]
            ELSE IF asked THEN [acc EXCEPT !.reads = @ + 1] ELSE acc
      l == KnownWeatherLabels(store.labels.queryErr, store.labels.rows)
  IN  IF asked /\ c.err # "nil" THEN [acc |-> a1, err |-> c.err]
      ELSE IF ~hasParam(p, { LabelsWord }) THEN [acc |-> a1, err |-> "nil"]
      ELSE IF l.err # "nil" THEN [acc |-> [a1 EXCEPT !.reads = @ + 1], err |-> l.err]
      ELSE [acc |-> [stats |-> MapPut(a1.stats, "labels", Val(l.labels)),
                     reads |-> a1.reads + 1],
            err |-> "nil"]

\* case "summary": DailyWeatherSummary for the value day
SummaryReports(p, store, acc) ==
  LET d == DailyWeatherSummary(store.summary.queryErr, store.summary.rows)
  IN  IF ~hasParam(p, { Day }) THEN [acc |-> acc, err |-> "nil"]
      ELSE IF d.err # "nil" THEN [acc |-> [acc EXCEPT !.reads = @ + 1], err |-> d.err]
      ELSE [acc |-> [stats |-> MapPut(acc.stats, "summary", [daily |-> Val(d.summary)]),
                     reads |-> acc.reads + 1],
            err |-> "nil"]

\* case "temp": the loop over the values of temp
TempReports(p, store, acc) ==
  LET r == TemperatureReports(p, store.temp, EmptyMap)
  IN  IF ~hasParam(p, { FilterLows, FilterHighs, FilterAverages })
      THEN [acc |-> acc, err |-> "nil"]
      ELSE IF r.err # "nil"
      THEN [acc |-> [acc EXCEPT !.reads = @ + Selects(p)], err |-> r.err]
      ELSE [acc |-> [stats |-> MapPut(acc.stats, "temperatures", Val(r.temps)),
                     reads |-> acc.reads + Selects(p)],
            err |-> "nil"]

RECURSIVE StatsLoop(_, _, _, _)

\* the end of each case: an error is answered with status 500 and ends
\* the request, else the loop goes on with the next parameter
StatsCase(r, order, params, store) ==
  IF r.err # "nil"
  THEN [resp |-> internalServerError(r.err), reads |-> r.acc.reads]
  ELSE StatsLoop(Tail(order), params, store, r.acc)

\* the loop of ReportWeatherStatistics over the parameters, in the order
\* in which the range over the map gives them
StatsLoop(order, params, store, acc) ==
  IF order = <<>> THEN [resp |-> sendStats(acc.stats), reads |-> acc.reads]
  ELSE StatsCase(CASE Head(order) = "count" -> CountReports(params.count, store, acc)
                   [] Head(order) = "summary" -> SummaryReports(params.summary, store, acc)
                   [] OTHER -> TempReports(params.temp, store, acc),
                 order, params, store)

\* ReportWeatherStatistics for any query string: the response and the
\* number of selects that the request made
ReportWeatherStatisticsFor(method, parsed, params, order, store) ==
  IF method # "GET"
  THEN [resp |-> methodError("HTTP method must be GET"), reads |-> 0]
  ELSE IF ~parsed THEN [resp |-> internalServerError("invalid URL escape"), reads |-> 0]
  ELSE IF Keys(params) = {} THEN [resp |-> sendDoc, reads |-> 0]
  ELSE StatsLoop(order, params, store, [stats |-> EmptyMap, reads |-> 0])

\* ----------------------------------------------------- accounts: the store
\* the user names that requests carry
Usernames == { "ann", "bob" }

\* the location names that a POST of bookmarks carries
BookmarkNames == { <<>>, << Title(<<"l", "o", "n">>) >> }

AccountMethods == { "GET", "POST", "DELETE" }

\* insert into accounts (user_name) values ($1) on conflict (user_name) do
\* nothing returning id, user_name: on a conflict no row is returned and
\* Scan gives ErrNoRows
NewAccount(username, storeErr) ==
  IF storeErr THEN [row |-> Nil, err |-> "storage error"]
  ELSE IF \E a \in accounts : a.user_name = username
  THEN [row |-> Nil, err |-> ErrNoRows]
  ELSE [row |-> Some([id |-> accountSeq, user_name |-> username]), err |-> "nil"]

\* select id, user_name from accounts where user_name = $1: nil, nil when
\* there is no row
ExistingAccount(username, storeErr) ==
  IF storeErr THEN [row |-> Nil, err |-> "storage error"]
  ELSE IF \E a \in accounts : a.user_name = username
  THEN [row |-> Some(CHOOSE a \in accounts : a.user_name = username), err |-> "nil"]
  ELSE [row |-> Nil, err |-> "nil"]

\* insert into bookmarks (id, location_ids) values ($1, $2) returning id,
\* location_ids, with the id of the account and no location ids (NULL,
\* which || and any() treat as the empty array)
NewBookmarkCollection(u, storeErr) ==
  IF storeErr THEN [row |-> Nil, err |-> "storage error"]
  ELSE IF \E b \in bookmarks : b.id = u.id
  THEN [row |-> Nil, err |-> "duplicate key"]
  ELSE [row |-> Some([id |-> u.id, location_ids |-> <<>>]), err |-> "nil"]

\* select id, location_ids from bookmarks where id = $1: nil, nil when
\* there is no row
GetBookmarkCollectionIDs(u, storeErr) ==
  IF storeErr THEN [row |-> Nil, err |-> "storage error"]
  ELSE IF \E b \in bookmarks : b.id = u.id
  THEN [row |-> Some(CHOOSE b \in bookmarks : b.id = u.id), err |-> "nil"]
  ELSE [row |-> Nil, err |-> "nil"]

\* update bookmarks set location_ids = bookmarks.location_ids || $2 where
\* id = $1 returning location_ids: when there is no row Scan gives ErrNoRows
UpdateBookmarkCollectionIDs(u, ids, storeErr) ==
  IF storeErr THEN [row |-> Nil, err |-> "storage error"]
  ELSE IF \E b \in bookmarks : b.id = u.id
  THEN LET b == CHOOSE x \in bookmarks : x.id = u.id
       IN  [row |-> Some([b EXCEPT !.location_ids = @ \o ids]), err |-> "nil"]
  ELSE [row |-> Nil, err |-> ErrNoRows]

\* select city_name from locations where id = any($1), rows in any order
NamesFromIDs(b, queryErr) ==
  IF queryErr THEN { [names |-> Nil, err |-> "storage error"] }
  ELSE { [names |-> Some([k \in DOMAIN o |-> o[k].city_name]), err |-> "nil"] :
           o \in Orders({ l \in locations : l.id \in Range(b.location_ids) }) }

\* select id from locations where city_name = any($1), rows in any order
IDsFromNames(names, queryErr) ==
  IF queryErr THEN { [ids |-> <<>>, err |-> "storage error"] }
  ELSE { [ids |-> [k \in DOMAIN o |-> o[k].id], err |-> "nil"] :
           o \in Orders({ l \in locations : l.city_name \in Range(names) }) }

\* the frame of an account handler: its request and its locals
AIdle ==
  [pc |-> "idle", op |-> "none", method |-> "GET", username |-> "",
   names |-> <<>>, acc |-> Nil, ids |-> <<>>, col |-> Nil,
   resp |-> NoResp, outcome |-> "none"]

\* Establish is not running
EstablishIdle ==
  [pc |-> "idle", retryCount |-> 0, cooldown |-> 0,
   attempts |-> 0, fails |-> <<>>, slept |-> 0, err |-> "none"]

\* the process once main serves: the goroutine has ended, the value of
\* ready was received
Serving ==
  [go |-> "end", main |-> "serving", ready |-> 0, exited |-> FALSE,
   executed |-> NumCommands, execErr |-> "nil", requests |-> 0]

\* the server is up: the connection is open and the schema script has run
Started ==
  /\ dbc = "handle"
  /\ est = EstablishIdle
  /\ proc = Serving

\* the cooldowns that Establish is called with: the test's and main's
Cooldowns == { 1, retryIntervalSec }

\* no account, no account request
AccountsIdle ==
  /\ accounts = {}
  /\ bookmarks = {}
  /\ accountSeq = 1
  /\ ah = [p \in Procs |-> AIdle]
  /\ alast = AIdle
  /\ aserved = 0

\* ------------------------------------------------------------------- init
\* the store the server starts on: the empty tables that init.db.sql makes,
\* or the tables an earlier run left after one refresh of one city
SeedName == Title(<<"l", "o", "n">>)

SeedLocation == [id |-> 1, city_name |-> SeedName, query_count |-> 1]

SeedReading ==
  WeatherInsertRow(SeedLocation, WeatherLabels(ProviderOK(SeedName)),
                   ProviderOK(SeedName).TempMin, ProviderOK(SeedName).TempMax, 0)

Stores ==
  { [locations |-> {}, weather |-> <<>>, nextId |-> 1],
    [locations |-> { SeedLocation }, weather |-> <<SeedReading>>, nextId |-> 2] }

Init ==
  /\ \E s \in Stores :
       /\ locations = s.locations
       /\ weather = s.weather
       /\ nextId = s.nextId
       /\ commits = [c \in CityNames |->
                       Cardinality({ l \in s.locations : l.city_name = c })]
  /\ now = 0
  /\ h = [p \in Procs |-> IdleFrame]
  /\ last = IdleFrame
  /\ stat = NoStat
  /\ served = 0
  /\ faults = 0
  /\ hits = [c \in CityNames |-> 0]
  /\ AccountsIdle
  /\ Started

\* --------------------------------------------------------------- actions
\* worker p goes on with frame f; when the handler has returned, the worker
\* is free again and the frame is kept as the last one that returned
Frame(p, f) ==
  IF f.pc = "done"
  THEN h' = [h EXCEPT ![p] = IdleFrame] /\ last' = f
  ELSE h' = [h EXCEPT ![p] = f] /\ last' = last

\* the frames there are: those of the running handlers and the last one
\* that returned
Frames == { h[p] : p \in Procs } \cup { last }

\* the handler returns: its locals are gone, the response stays
Finish(f, resp) ==
  [IdleFrame EXCEPT !.pc = "done", !.method = f.method, !.cityName = f.cityName,
                    !.resp = resp, !.location = f.location, !.refresh = f.refresh,
                    !.gwCalls = f.gwCalls, !.gwName = f.gwName,
                    !.writes = f.writes, !.scanErr = f.scanErr,
                    !.own = f.own, !.outcome = f.outcome,
                    !.committed = f.committed, !.snap = f.snap]

\* variant: the low temperature is reported as the median
Payload_LowAsMedian(cityName, wr) ==
  [city_name |-> cityName, conditions |-> wr.labels,
   low_temp |-> wr.temp_low, high_temp |-> wr.temp_high,
   median_temp |-> [num |-> wr.temp_low, den |-> 1],
   at_time |-> wr.at_time]

\* the payload of the weather response, built from wr
Payload(cityName, wr) ==
  [city_name |-> cityName, conditions |-> wr.labels,
   low_temp |-> wr.temp_low, high_temp |-> wr.temp_high,
   median_temp |-> [num |-> wr.temp_low + wr.temp_high, den |-> 2],
   at_time |-> wr.at_time]

\* the end of ReportLocationWeather: sendJSON of the payload, which reads
\* the fields of wr
Respond(f) ==
  Finish(f, IF f.wr = Nil THEN Panicked
            ELSE sendJSON(Payload(f.cityName, Val(f.wr))))

\* a call fails only while the budget of failures lasts
Fault(failed) ==
  /\ failed => faults < MaxFaults
  /\ faults' = IF failed THEN faults + 1 ELSE faults

\* the clock advances
Tick ==
  /\ now < MaxTime
  /\ now' = now + 1
  /\ UNCHANGED <<locations, weather, nextId, h, last, served, faults, commits, hits, stat,
                 accountVars, startVars>>

\* ReportLocationWeather up to the normalisation of the city name: the
\* method check, url.ParseQuery, strings.Title.  The workers are
\* interchangeable: a request goes to the first free one
ReceiveFrom(p, cities) ==
  /\ h[p].pc = "idle"
  /\ \A q \in Procs : q < p => h[q].pc # "idle"
  /\ served < MaxRequests
  /\ served' = served + 1
  /\ \E method \in Methods, parsed \in BOOLEAN, city \in cities :
       Frame(p,
         IF method # "GET"
         THEN Finish([IdleFrame EXCEPT !.method = method, !.outcome = "method"],
                     methodError("HTTP method must be GET"))
         ELSE IF ~parsed
         THEN Finish([IdleFrame EXCEPT !.outcome = "query"],
                     internalServerError("invalid URL escape"))
         ELSE [IdleFrame EXCEPT !.pc = "lookup", !.cityName = Title(city)])
  /\ UNCHANGED <<locations, weather, nextId, now, faults, commits, hits, stat,
                 accountVars, startVars>>

Receive(p) == ReceiveFrom(p, CityParams)

\* db.FetchLocationWeather(cityName) and parseRows
Lookup(p) ==
  /\ h[p].pc = "lookup"
  /\ \E o \in ScanOutcomes(h[p].cityName) :
       LET res  == FetchLocationWeatherResult(o.err, o.row)
           rows == parseRows(res.query)
           f    == [h[p] EXCEPT !.scan = Some(o), !.scanErr = o.err,
                                    !.seen = OwnLatest(h[p].cityName)]
       IN  /\ Fault(o.err = "storage error")
           /\ Frame(p,
                IF res.err # "nil"
                THEN Finish([f EXCEPT !.outcome = "lookup error"],
                            internalServerError(res.err))
                ELSE [f EXCEPT !.pc = "decide", !.lr = rows.lr, !.wr = rows.wr])
  /\ UNCHANGED <<locations, weather, nextId, now, served, commits, hits, stat,
                 accountVars, startVars>>

\* the freshness test and what follows it: on a hit IncrQueryCount (its
\* update can fail before or after it reached the store), otherwise the
\* gateway call and the checks of its result
Hit(p) ==
  /\ h[p].lr # Nil
  /\ h[p].wr # Nil
  /\ now - Val(h[p].wr).at_time < TTL

DecideOutcomes(p) ==
  IF Hit(p)
  THEN { [incr |-> e] : e \in { "nil", "exec error", "close error" } }
  ELSE GatewayResults(h[p].cityName)

Decide(p) ==
  /\ h[p].pc = "decide"
  /\ Hit(p) => ~Locked(h[p].cityName, p)
  /\ \E o \in DecideOutcomes(p) :
       LET f == [h[p] EXCEPT !.own = OwnState(h[p].seen)]
       IN
       IF Hit(p)
       THEN LET lr == Val(f.lr)
                wrote == o.incr # "exec error"
                g == [f EXCEPT !.refresh = FALSE,
                               !.lr = Some([lr EXCEPT !.query_count = @ + 1]),
                               !.writes = IF wrote THEN @ + 1 ELSE @]
            IN  /\ Fault(o.incr # "nil")
                /\ locations' = IF wrote THEN IncrQueryCount(lr) ELSE locations
                /\ hits' = IF o.incr = "nil"
                           THEN [hits EXCEPT ![lr.city_name] = @ + 1] ELSE hits
                /\ Frame(p, IF o.incr # "nil"
                            THEN Finish([g EXCEPT !.outcome = "incr error"],
                                        internalServerError(o.incr))
                            ELSE Respond([g EXCEPT !.outcome = "hit"]))
       ELSE LET g == [f EXCEPT !.gwCalls = @ + 1, !.gwName = f.cityName,
                               !.location = o.location]
            IN  /\ Fault(o.err # "nil")
                /\ UNCHANGED <<locations, hits>>
                /\ Frame(p,
                     IF o.err # "nil"
                     THEN Finish([g EXCEPT !.outcome = "gateway error"],
                                 internalServerError(o.err))
                     ELSE IF ProviderFailed(Val(o.location))
                     THEN Finish([g EXCEPT !.outcome = "provider failure"],
                                 sendMessage(ProviderMessage(Val(o.location))))
                     ELSE [g EXCEPT !.pc = "begin",
                                    !.snap = Some(Snapshot(f.cityName))])
  /\ UNCHANGED <<weather, nextId, now, served, commits, stat,
                 accountVars, startVars>>

\* UpdateCachedLocationWeather: GlobalConn.Begin.  When it fails the
\* function returns (nil, err) with its own err, which is still nil, and
\* the handler goes on to its response with a nil wr
Begin(p) ==
  /\ h[p].pc = "begin"
  /\ \E ok \in BOOLEAN :
       /\ Fault(~ok)
       /\ Frame(p,
            IF ok
            THEN [h[p] EXCEPT !.pc = "upsert",
                              !.txn = [NoTxn EXCEPT !.status = "open"]]
            ELSE Respond([h[p] EXCEPT !.lr = Nil, !.wr = Nil,
                                      !.outcome = "begin error"]))
  /\ UNCHANGED <<locations, weather, nextId, now, served, commits, hits, stat,
                 accountVars, startVars>>

\* UpdateCachedLocationWeather: the upsert of the location, whose error
\* (of Prepare or of Scan) is assigned to the function's err
UpsertLocation(p) ==
  /\ h[p].pc = "upsert"
  /\ \E o \in { "nil", "prepare error", "scan error" } :
       /\ Fault(o # "nil")
       /\ IF o = "nil"
          THEN /\ ~Locked(h[p].cityName, p)
               /\ nextId' = nextId + 1
               /\ Frame(p, [h[p] EXCEPT
                    !.pc = "insert",
                    !.ret.lr = Some(UpsertRow(h[p].cityName)),
                    !.txn.loc = Some(UpsertRow(h[p].cityName)),
                    !.writes = @ + 1])
          ELSE /\ nextId' = nextId
               /\ Frame(p, [h[p] EXCEPT
                    !.pc = "deferred", !.err = o, !.ret.err = o,
                    !.outcome = "upsert error",
                    !.txn.status = IF o = "scan error" THEN "failed" ELSE @])
  /\ UNCHANGED <<locations, weather, now, served, commits, hits, stat,
                 accountVars, startVars>>

\* UpdateCachedLocationWeather: the insert of the reading.  The error of
\* Prepare is assigned to the function's err; the error of Scan (the
\* statement failed in the store, or its row could not be read back) is
\* declared in the if statement and leaves the function's err nil
InsertReading(p) ==
  /\ h[p].pc = "insert"
  /\ \E o \in { "nil", "prepare error", "exec error", "scan error" } :
       LET loc == Val(h[p].location)
           row == WeatherInsertRow(Val(h[p].ret.lr), WeatherLabels(loc),
                                   loc.TempMin, loc.TempMax, now)
       IN  /\ Fault(o # "nil")
           /\ Frame(p, [h[p] EXCEPT
                !.pc = "deferred",
                !.outcome = IF o = "nil" THEN @ ELSE "insert " \o o,
                !.err = IF o = "prepare error" THEN o ELSE "nil",
                !.ret.err = o,
                !.ret.wr = IF o = "nil" THEN Some(row) ELSE Nil,
                !.txn.status = IF o = "exec error" THEN "failed" ELSE @,
                !.txn.wrow = IF o \in { "nil", "scan error" } THEN Some(row) ELSE Nil,
                !.writes = IF o \in { "nil", "scan error" } THEN @ + 1 ELSE @])
  /\ UNCHANGED <<locations, weather, nextId, now, served, commits, hits, stat,
                 accountVars, startVars>>

\* the deferred function of UpdateCachedLocationWeather, then the handler's
\* check of the returned error and its response.  Rollback when the function's err is set,
\* Commit otherwise; a commit of a failed transaction rolls back; the error
\* of Commit is assigned after the results were set and is not returned
Deferred(p) ==
  /\ h[p].pc = "deferred"
  /\ \E commitOK \in BOOLEAN :
       LET f == h[p]
           commit == f.err = "nil" /\ f.txn.status = "open" /\ commitOK
           g == [f EXCEPT !.txn = NoTxn, !.committed = commit]
       IN  /\ commitOK \/ (f.err = "nil" /\ f.txn.status = "open")
           /\ Fault(~commitOK)
           /\ locations' = IF commit /\ f.txn.loc # Nil
                           THEN CommitLocation(Val(f.txn.loc)) ELSE locations
           /\ weather' = IF commit /\ f.txn.wrow # Nil
                         THEN Append(weather, Val(f.txn.wrow)) ELSE weather
           /\ commits' = IF commit /\ f.txn.loc # Nil
                         THEN [commits EXCEPT ![f.cityName] = @ + 1] ELSE commits
           /\ Frame(p,
                IF f.ret.err # "nil"
                THEN Finish(g, internalServerError(f.ret.err))
                ELSE Respond([g EXCEPT !.lr = f.ret.lr, !.wr = f.ret.wr,
                                       !.outcome = IF commit THEN "refreshed"
                                                   ELSE "commit error"]))
  /\ UNCHANGED <<nextId, now, served, hits, stat,
                 accountVars, startVars>>

\* db.TotalQueryCount()
CallTotalQueryCount ==
  /\ stat = NoStat
  /\ \E queryErr \in BOOLEAN :
       LET r == TotalQueryCount(queryErr, locations)
       IN  stat' = [NoStat EXCEPT !.op = "TotalQueryCount",
                                  !.value = IF r.err = "nil" THEN Some(r.count) ELSE Nil,
                                  !.err = r.err]
  /\ UNCHANGED <<locations, weather, nextId, now, h, last, served, faults, commits, hits,
                 accountVars, startVars>>

\* the total is asked for once, when the weather requests have been answered
CountQueries ==
  /\ served = MaxRequests
  /\ \A p \in Procs : h[p].pc = "idle"
  /\ CallTotalQueryCount

Next ==
  \/ Tick
  \/ CountQueries
  \/ \E p \in Procs :
       \/ Receive(p)
       \/ Lookup(p)
       \/ Decide(p)
       \/ Begin(p)
       \/ UpsertLocation(p)
       \/ InsertReading(p)
       \/ Deferred(p)

Spec == Init /\ [][Next]_vars

TypeOK ==
  /\ now \in 0..MaxTime
  /\ served \in 0..MaxRequests
  /\ faults \in 0..MaxFaults
  /\ \A l \in locations : l.id \in 1..(nextId - 1) /\ l.query_count >= 1

\* ------------------------------------------------ the case of the letters
\* requests whose city parameters differ in the case of the letters only,
\* on an empty store
CaseParams == { <<"r", "e", "n", "o">>, <<"R", "E", "N", "O">> }

CaseNames == { Title(c) : c \in CaseParams }

CaseInit ==
  /\ locations = {}
  /\ weather = <<>>
  /\ nextId = 1
  /\ commits = [c \in CaseNames |-> 0]
  /\ hits = [c \in CaseNames |-> 0]
  /\ now = 0
  /\ h = [p \in Procs |-> IdleFrame]
  /\ last = IdleFrame
  /\ stat = NoStat
  /\ served = 0
  /\ faults = 0
  /\ AccountsIdle
  /\ Started

ReceiveCase(p) == ReceiveFrom(p, CaseParams)

CaseNext ==
  \/ Tick
  \/ CountQueries
  \/ \E p \in Procs :
       \/ ReceiveCase(p)
       \/ Lookup(p)
       \/ Decide(p)
       \/ Begin(p)
       \/ UpsertLocation(p)
       \/ InsertReading(p)
       \/ Deferred(p)

CaseSpec == CaseInit /\ [][CaseNext]_vars

\* ---------------------------------------------------- statistics: the runs
\* the statistics are computed from a history of readings: two cities, and
\* readings in the order they were captured, some of them with a NULL
\* temperature (the columns temp_low and temp_high allow NULL)
StatLocations ==
  { [id |-> 1, city_name |-> Title(<<"l", "o", "n">>), query_count |-> 1],
    [id |-> 2, city_name |-> Title(<<"r", "e", "n", "o">>), query_count |-> 1] }

\* the temperature pairs (temp_low, temp_high) of the readings of a city
TempPairs(id) ==
  IF id = 1 THEN { <<8, 12>>, <<20, 20>>, <<28, 32>>, <<Null, 12>> }
  ELSE { <<20, 20>>, <<Null, 12>> }

\* the labels of a reading go with its temperatures; the provider may
\* list two conditions of one main label, and WeatherLabels keeps both
LabelsOf(p) ==
  IF p = <<8, 12>> THEN <<"Clear">>
  ELSE IF p = <<20, 20>> THEN <<"Rain">>
  ELSE IF p = <<28, 32>> THEN <<"Clear", "Haze">>
  ELSE <<"Haze", "Haze">>

StatReadings ==
  UNION { { [location_id |-> l.id, labels |-> LabelsOf(p),
             temp_low |-> p[1], temp_high |-> p[2], at_time |-> d * TicksPerDay] :
              p \in TempPairs(l.id), d \in 0..MaxDay }
          : l \in StatLocations }

\* readings are stored in the order of their at_time; the order of two
\* readings of one at_time is fixed, as the selects return the rows of one
\* at_time in any order
Before(r, s) ==
  \/ r.at_time < s.at_time
  \/ /\ r.at_time = s.at_time
     /\ \/ r.location_id < s.location_id
        \/ /\ r.location_id = s.location_id
           /\ \/ r.temp_low < s.temp_low
              \/ r.temp_low = s.temp_low /\ r.temp_high <= s.temp_high

RECURSIVE Histories(_)
Histories(n) ==
  IF n = 0 THEN { <<>> }
  ELSE LET S == Histories(n - 1)
       IN  S \cup
           { Append(x[1], x[2]) :
               x \in { y \in S \X StatReadings :
                         /\ Len(y[1]) = n - 1
                         /\ n > 1 => Before(y[1][n - 1], y[2]) } }

StatsInit ==
  /\ locations = StatLocations
  /\ weather \in Histories(MaxReadings)
  /\ nextId = 3
  /\ commits = [c \in CityNames |-> 1]
  /\ now = MaxDay * TicksPerDay
  /\ h = [p \in Procs |-> IdleFrame]
  /\ last = IdleFrame
  /\ stat = NoStat
  /\ served = 0
  /\ faults = 0
  /\ hits = [c \in CityNames |-> 0]
  /\ AccountsIdle
  /\ Started

\* the statistics only read the store, so one call stands for any number
\* of them: a behaviour makes one call on the history it starts from

\* db.MonthlyTemperature(f)
CallMonthlyTemperature ==
  /\ stat = NoStat
  /\ \E f \in { FilterLows, FilterHighs, FilterAverages, <<"b", "o", "g", "u", "s">> } :
       \E c \in IF f \in { FilterLows, FilterHighs } THEN StoreAnswers
                 ELSE { [queryErr |-> FALSE, rows |-> <<>>] } :
         LET r == MonthlyTemperature(f, c.queryErr, c.rows)
         IN  stat' = [NoStat EXCEPT !.op = "MonthlyTemperature", !.arg = f,
                                    !.rows = c.rows,
                                    !.temps = r.temps, !.err = r.err]
  /\ UNCHANGED <<locations, weather, nextId, now, h, last, served, faults, commits, hits,
                 accountVars, startVars>>

\* db.MonthlyAverageTemperature()
CallMonthlyAverageTemperature ==
  /\ stat = NoStat
  /\ \E c \in StoreAnswers :
       LET r == MonthlyAverageTemperature(c.queryErr, c.rows)
       IN  stat' = [NoStat EXCEPT !.op = "MonthlyAverageTemperature",
                                  !.rows = c.rows,
                                  !.daily = r.daily, !.temps = r.temps,
                                  !.err = r.err]
  /\ UNCHANGED <<locations, weather, nextId, now, h, last, served, faults, commits, hits,
                 accountVars, startVars>>

\* db.KnownWeatherLabels()
CallKnownWeatherLabels ==
  /\ stat = NoStat
  /\ \E c \in { [queryErr |-> TRUE, rows |-> <<>>] }
                \cup { [queryErr |-> FALSE, rows |-> r] : r \in LabelRows } :
       LET r == KnownWeatherLabels(c.queryErr, c.rows)
       IN  stat' = [NoStat EXCEPT !.op = "KnownWeatherLabels", !.rows = c.rows,
                                  !.value = r.labels, !.err = r.err]
  /\ UNCHANGED <<locations, weather, nextId, now, h, last, served, faults, commits, hits,
                 accountVars, startVars>>

\* the requests to ReportWeatherStatistics: one that is not a GET, one
\* whose query string does not parse, and a GET for each value of temp
StatsRequests ==
  { [method |-> "POST", parsed |-> TRUE, p |-> <<>>],
    [method |-> "GET", parsed |-> FALSE, p |-> <<>>] }
    \cup { [method |-> "GET", parsed |-> TRUE, p |-> p] : p \in TempParams }

\* a request to ReportWeatherStatistics
StatsRequest ==
  /\ stat = NoStat
  /\ \E req \in StatsRequests :
       \E calls \in [1..Selects(req.p) -> StoreAnswers] :
         stat' = [NoStat EXCEPT
                    !.op = "ReportWeatherStatistics",
                    !.arg = <<req.method, req.parsed, req.p>>,
                    !.resp = ReportWeatherStatistics(req.method, req.parsed,
                                                     req.p, calls)]
  /\ UNCHANGED <<locations, weather, nextId, now, h, last, served, faults, commits, hits,
                 accountVars, startVars>>

StatsNext ==
  \/ CallMonthlyTemperature
  \/ CallMonthlyAverageTemperature
  \/ CallKnownWeatherLabels
  \/ CallTotalQueryCount
  \/ StatsRequest

StatsSpec == StatsInit /\ [][StatsNext]_vars

\* ------------------------------------------------------ statistics: reports
\* what the store does for the selects of one request: each select fails
\* or returns its rows in one of their orders; a select that the request
\* does not make has no answer to choose
NoAnswer == [queryErr |-> FALSE, rows |-> <<>>]

StoreFor(params) ==
  { [count |-> c, labels |-> l, summary |-> d, temp |-> t] :
      c \in (IF hasParam(params.count, { Query }) THEN BOOLEAN ELSE { FALSE }),
      l \in (IF hasParam(params.count, { LabelsWord })
             THEN { [queryErr |-> TRUE, rows |-> <<>>] }
                    \cup { [queryErr |-> FALSE, rows |-> r] : r \in LabelRows }
             ELSE { NoAnswer }),
      d \in (IF hasParam(params.summary, { Day })
             THEN { [queryErr |-> TRUE, rows |-> <<>>] }
                    \cup { [queryErr |-> FALSE, rows |-> r] : r \in SummaryOrders }
             ELSE { NoAnswer }),
      t \in [1..Selects(params.temp) -> StoreAnswers] }

\* db.DailyWeatherSummary()
CallDailyWeatherSummary ==
  /\ stat = NoStat
  /\ \E c \in { [queryErr |-> TRUE, rows |-> <<>>] }
                \cup { [queryErr |-> FALSE, rows |-> r] : r \in SummaryOrders } :
       LET r == DailyWeatherSummary(c.queryErr, c.rows)
       IN  stat' = [NoStat EXCEPT !.op = "DailyWeatherSummary", !.rows = c.rows,
                                  !.value = r.summary, !.err = r.err]
  /\ UNCHANGED <<locations, weather, nextId, now, h, last, served, faults, commits, hits,
                 accountVars, startVars>>

\* a request to ReportWeatherStatistics with any of its parameters
StatsQuery ==
  /\ stat = NoStat
  /\ \E method \in Methods, parsed \in BOOLEAN, params \in QueryStrings :
       \E order \in Orders(Keys(params)), store \in StoreFor(params) :
         LET r == ReportWeatherStatisticsFor(method, parsed, params, order, store)
         IN  stat' = [NoStat EXCEPT
                        !.op = "ReportWeatherStatistics",
                        !.arg = <<method, parsed, params, order>>,
                        !.value = Some(r.reads),
                        !.resp = r.resp]
  /\ UNCHANGED <<locations, weather, nextId, now, h, last, served, faults, commits, hits,
                 accountVars, startVars>>

ReportNext ==
  \/ CallDailyWeatherSummary
  \/ StatsQuery

\* a report is asked for on a short history
ReportInit ==
  /\ locations = StatLocations
  /\ weather \in Histories(MaxReportReadings)
  /\ nextId = 3
  /\ commits = [c \in CityNames |-> 1]
  /\ now = MaxDay * TicksPerDay
  /\ h = [p \in Procs |-> IdleFrame]
  /\ last = IdleFrame
  /\ stat = NoStat
  /\ served = 0
  /\ faults = 0
  /\ hits = [c \in CityNames |-> 0]
  /\ AccountsIdle
  /\ Started

ReportSpec == ReportInit /\ [][ReportNext]_vars

\* ------------------------------------------------- accounts: the handlers
\* the variables of the weather side that the account handlers leave alone
weatherVars == <<locations, weather, nextId, now, h, last, stat, served, commits, hits>>

\* a handler that is done returns: its worker is idle again and its frame
\* is kept as the last one
AFrame(p, f) ==
  IF f.pc = "done"
  THEN ah' = [ah EXCEPT ![p] = AIdle] /\ alast' = f
  ELSE ah' = [ah EXCEPT ![p] = f] /\ alast' = alast

AFrames == { ah[p] : p \in Procs } \cup { alast }

AFinish(f, resp, outcome) ==
  [f EXCEPT !.pc = "done", !.resp = resp, !.outcome = outcome]

NoAccountFound(username) == "no account found with that username: " \o username

\* the three account handlers up to their first call of the store: the
\* method check and the decoding of the query string or of the body
AReceive(p) ==
  /\ ah[p].pc = "idle"
  /\ \A q \in Procs : q < p => ah[q].pc # "idle"
  /\ aserved < MaxAccountRequests
  /\ aserved' = aserved + 1
  /\ \E op \in { "create", "bookmarks", "info" }, method \in AccountMethods,
        decoded \in BOOLEAN, username \in Usernames, names \in BookmarkNames :
       LET f == [AIdle EXCEPT !.op = op, !.method = method, !.username = username,
                              !.names = IF op = "bookmarks" /\ method = "POST"
                                        THEN names ELSE <<>>]
           allowed == CASE op = "create" -> { "POST" }
                        [] op = "info" -> { "GET" }
                        [] OTHER -> { "GET", "POST" }
           message == CASE op = "create" -> "HTTP method must be POST"
                        [] op = "info" -> "HTTP method must be GET"
                        [] OTHER -> "HTTP method must be GET or POST"
       IN  AFrame(p,
             IF method \notin allowed
             THEN AFinish([f EXCEPT !.username = "", !.names = <<>>],
                          methodError(message), "method")
             ELSE IF ~decoded
             THEN AFinish([f EXCEPT !.username = "", !.names = <<>>],
                          internalServerError("invalid request"), "decode")
             ELSE [f EXCEPT !.pc = IF op = "create" THEN "newaccount" ELSE "existing"])
  /\ UNCHANGED <<weatherVars, startVars, faults, accounts, bookmarks, accountSeq>>

\* CreateNewAccount: db.NewAccount(username).  The serial is taken also
\* when the insert meets a conflict
ANewAccount(p) ==
  /\ ah[p].pc = "newaccount"
  /\ \E storeErr \in BOOLEAN :
       LET r == NewAccount(ah[p].username, storeErr)
       IN  /\ Fault(storeErr)
           /\ accountSeq' = IF storeErr THEN accountSeq ELSE accountSeq + 1
           /\ accounts' = IF r.row # Nil THEN accounts \cup { Val(r.row) } ELSE accounts
           /\ AFrame(p,
                IF r.err # "nil"
                THEN AFinish(ah[p], internalServerError(r.err), "account error")
                ELSE [ah[p] EXCEPT !.pc = "collection", !.acc = r.row])
  /\ UNCHANGED <<weatherVars, startVars, bookmarks, aserved>>

\* CreateNewAccount: acc.NewBookmarkCollection(), a statement of its own,
\* and the response
ANewBookmarkCollection(p) ==
  /\ ah[p].pc = "collection"
  /\ \E storeErr \in BOOLEAN :
       LET acc == Val(ah[p].acc)
           r == NewBookmarkCollection(acc, storeErr)
       IN  /\ Fault(storeErr)
           /\ bookmarks' = IF r.row # Nil THEN bookmarks \cup { Val(r.row) } ELSE bookmarks
           /\ AFrame(p,
                IF r.err # "nil"
                THEN AFinish(ah[p], internalServerError(r.err), "collection error")
                ELSE AFinish([ah[p] EXCEPT !.col = r.row],
                             sendJSON([name |-> acc.user_name, id |-> acc.id,
                                       bookmark_collection_id |-> Val(r.row).id,
                                       bookmarked_location_i_ds |-> Val(r.row).location_ids]),
                             "created"))
  /\ UNCHANGED <<weatherVars, startVars, accounts, accountSeq, aserved>>

\* GetAccountUserInfo and AccountBookmarksCollectionAction:
\* db.ExistingAccount(username) and the test of acc
AExistingAccount(p) ==
  /\ ah[p].pc = "existing"
  /\ \E storeErr \in BOOLEAN :
       LET r == ExistingAccount(ah[p].username, storeErr)
       IN  /\ Fault(storeErr)
           /\ AFrame(p,
                IF r.err # "nil"
                THEN AFinish(ah[p], internalServerError(r.err), "lookup error")
                ELSE IF r.row = Nil
                THEN AFinish(ah[p], sendMessage(NoAccountFound(ah[p].username)),
                             "no account")
                ELSE IF ah[p].op = "info"
                THEN AFinish([ah[p] EXCEPT !.acc = r.row],
                             sendJSON([name |-> Val(r.row).user_name,
                                       id |-> Val(r.row).id]), "info")
                ELSE [ah[p] EXCEPT !.acc = r.row,
                                   !.pc = IF ah[p].method = "GET" THEN "getcol" ELSE "ids"])
  /\ UNCHANGED <<weatherVars, startVars, accounts, bookmarks, accountSeq, aserved>>

\* AccountBookmarksCollectionAction, GET: acc.GetBookmarkCollectionIDs()
\* and the test of col, whose branch reads col.ID of the nil col
AGetBookmarkCollectionIDs(p) ==
  /\ ah[p].pc = "getcol"
  /\ \E storeErr \in BOOLEAN :
       LET r == GetBookmarkCollectionIDs(Val(ah[p].acc), storeErr)
       IN  /\ Fault(storeErr)
           /\ AFrame(p,
                IF r.err # "nil"
                THEN AFinish(ah[p], internalServerError(r.err), "collection lookup error")
                ELSE IF r.row = Nil
                THEN AFinish(ah[p], Panicked, "no collection")
                ELSE [ah[p] EXCEPT !.pc = "names", !.col = r.row])
  /\ UNCHANGED <<weatherVars, startVars, accounts, bookmarks, accountSeq, aserved>>

\* AccountBookmarksCollectionAction, POST: db.IDsFromNames(locations)
AIDsFromNames(p) ==
  /\ ah[p].pc = "ids"
  /\ \E queryErr \in BOOLEAN :
       \E r \in IDsFromNames(ah[p].names, queryErr) :
         /\ Fault(queryErr)
         /\ AFrame(p,
              IF r.err # "nil"
              THEN AFinish(ah[p], internalServerError(r.err), "ids error")
              ELSE [ah[p] EXCEPT !.pc = "update", !.ids = r.ids])
  /\ UNCHANGED <<weatherVars, startVars, accounts, bookmarks, accountSeq, aserved>>

\* AccountBookmarksCollectionAction, POST:
\* acc.UpdateBookmarkCollectionIDs(newIDs); the test of col that follows
\* it is never true, as the function returns a row or an error
AUpdateBookmarkCollectionIDs(p) ==
  /\ ah[p].pc = "update"
  /\ \E storeErr \in BOOLEAN :
       LET acc == Val(ah[p].acc)
           r == UpdateBookmarkCollectionIDs(acc, ah[p].ids, storeErr)
       IN  /\ Fault(storeErr)
           /\ bookmarks' = IF r.row # Nil
                           THEN { b \in bookmarks : b.id # acc.id } \cup { Val(r.row) }
                           ELSE bookmarks
           /\ AFrame(p,
                IF r.err # "nil"
                THEN AFinish(ah[p], internalServerError(r.err),
                             IF r.err = ErrNoRows THEN "no collection" ELSE "update error")
                ELSE [ah[p] EXCEPT !.pc = "names", !.col = r.row])
  /\ UNCHANGED <<weatherVars, startVars, accounts, accountSeq, aserved>>

\* AccountBookmarksCollectionAction: col.NamesFromIDs() and the response
ANamesFromIDs(p) ==
  /\ ah[p].pc = "names"
  /\ \E queryErr \in BOOLEAN :
       \E r \in NamesFromIDs(Val(ah[p].col), queryErr) :
         /\ Fault(queryErr)
         /\ AFrame(p,
              IF r.err # "nil"
              THEN AFinish(ah[p], internalServerError(r.err), "names error")
              ELSE AFinish(ah[p], sendJSON([Bookmarks |-> Val(r.names)]), "bookmarks"))
  /\ UNCHANGED <<weatherVars, startVars, accounts, bookmarks, accountSeq, aserved>>

\* the account requests run on a store with two locations and no account
AccountsInit ==
  /\ locations = StatLocations
  /\ weather = <<>>
  /\ nextId = 3
  /\ commits = [c \in CityNames |-> 1]
  /\ hits = [c \in CityNames |-> 0]
  /\ now = 0
  /\ h = [p \in Procs |-> IdleFrame]
  /\ last = IdleFrame
  /\ stat = NoStat
  /\ served = 0
  /\ faults = 0
  /\ AccountsIdle
  /\ Started

AccountsNext ==
  \E p \in Procs :
    \/ AReceive(p)
    \/ ANewAccount(p)
    \/ ANewBookmarkCollection(p)
    \/ AExistingAccount(p)
    \/ AGetBookmarkCollectionIDs(p)
    \/ AIDsFromNames(p)
    \/ AUpdateBookmarkCollectionIDs(p)
    \/ ANamesFromIDs(p)

AccountsSpec == AccountsInit /\ [][AccountsNext]_vars

\* --------------------------------------------------- startup: the database
\* variant: the retries are used up one failure later
timeout_After(n, retryCount) == n > retryCount

\* Establish: timeout := func(n int) bool { return n >= retryCount }
timeout(n, retryCount) == n >= retryCount

\* the frame of a call Establish(retryCount, retryCooldownSeconds) at its
\* first statement
EstablishFrame(retryCount, retryCooldownSeconds) ==
  [pc |-> "check", retryCount |-> retryCount, cooldown |-> retryCooldownSeconds,
   attempts |-> 0, fails |-> <<>>, slept |-> 0, err |-> "none"]

\* what Establish does when sql.Open or Ping has failed: it returns the
\* error when the retries are used up, else it counts the attempt and waits
EstablishFailed(step) ==
  IF timeout(est.attempts, est.retryCount)
  THEN [est EXCEPT !.pc = "done", !.err = step \o " error",
                   !.fails = Append(@, step)]
  ELSE [est EXCEPT !.pc = "wait", !.attempts = @ + 1,
                   !.fails = Append(@, step)]

\* if dbc.DB != nil: a ping that succeeds ends the call
EstablishCheck ==
  /\ ~proc.exited
  /\ est.pc = "check"
  /\ \E pingOK \in BOOLEAN :
       est' = IF dbc # "nil" /\ pingOK
              THEN [est EXCEPT !.pc = "done", !.err = "nil"]
              ELSE [est EXCEPT !.pc = "open"]
  /\ UNCHANGED <<dbc, proc>>
  /\ UNCHANGED <<weatherVars, faults, accountVars>>

\* conn, err := sql.Open(...); dbc.DB = conn when it succeeds
EstablishOpen ==
  /\ ~proc.exited
  /\ est.pc = "open"
  /\ \E openOK \in BOOLEAN :
       IF openOK
       THEN dbc' = "handle" /\ est' = [est EXCEPT !.pc = "ping"]
       ELSE dbc' = dbc /\ est' = EstablishFailed("open")
  /\ UNCHANGED proc
  /\ UNCHANGED <<weatherVars, faults, accountVars>>

\* dbc.Ping(): break and return nil when it succeeds
EstablishPing ==
  /\ ~proc.exited
  /\ est.pc = "ping"
  /\ \E pingOK \in BOOLEAN :
       est' = IF pingOK THEN [est EXCEPT !.pc = "done", !.err = "nil"]
              ELSE EstablishFailed("ping")
  /\ UNCHANGED <<dbc, proc>>
  /\ UNCHANGED <<weatherVars, faults, accountVars>>

\* wait(): the sleep of retryCooldownSeconds, then the loop continues
EstablishWait ==
  /\ ~proc.exited
  /\ est.pc = "wait"
  /\ est' = [est EXCEPT !.pc = "open", !.slept = @ + est.cooldown]
  /\ UNCHANGED <<dbc, proc>>
  /\ UNCHANGED <<weatherVars, faults, accountVars>>

EstablishNext ==
  \/ EstablishCheck
  \/ EstablishOpen
  \/ EstablishPing
  \/ EstablishWait

\* the tables and the handlers when no request is made
Quiet ==
  /\ locations = {}
  /\ weather = <<>>
  /\ nextId = 1
  /\ commits = [c \in CityNames |-> 0]
  /\ hits = [c \in CityNames |-> 0]
  /\ now = 0
  /\ h = [p \in Procs |-> IdleFrame]
  /\ last = IdleFrame
  /\ stat = NoStat
  /\ served = 0
  /\ faults = 0
  /\ AccountsIdle

\* a call of Establish outside main, as the test makes it: with any retry
\* count and cooldown, on a connection that was opened before or not
EstablishInit ==
  /\ Quiet
  /\ dbc \in { "nil", "handle" }
  /\ est \in { EstablishFrame(n, c) : n \in 0..MaxRetryCount, c \in Cooldowns }
  /\ proc = [Serving EXCEPT !.main = "none", !.go = "none", !.executed = 0]

\* a call that is running takes its next step
EstablishSpec == EstablishInit /\ [][EstablishNext]_vars /\ WF_vars(EstablishNext)

\* ------------------------------------------------------- startup: main
\* variant: the receive from ready does not wait for a value
Receivable_Always == TRUE

\* <-ready can complete: the channel holds a value
Receivable == proc.ready > 0

\* go func(): db.GlobalConn.Establish(maxNumRetries, retryIntervalSec)
GoEstablish ==
  /\ ~proc.exited
  /\ proc.go = "start"
  /\ est' = EstablishFrame(maxNumRetries, retryIntervalSec)
  /\ proc' = [proc EXCEPT !.go = "establish"]
  /\ UNCHANGED dbc
  /\ UNCHANGED <<weatherVars, faults, accountVars>>

\* if err := Establish(...); err != nil { log.Fatal(err) }
GoEstablished ==
  /\ ~proc.exited
  /\ proc.go = "establish"
  /\ est.pc = "done"
  /\ proc' = IF est.err # "nil" THEN [proc EXCEPT !.go = "fatal", !.exited = TRUE]
             ELSE [proc EXCEPT !.go = "exec"]
  /\ UNCHANGED <<dbc, est>>
  /\ UNCHANGED <<weatherVars, faults, accountVars>>

\* if err := ExecFrom("./data/init.db.sql"); err != nil { log.Fatal(err) }:
\* the file cannot be read, or one of its commands fails in Prepare or in
\* Exec after the commands before it have run, or all commands run
GoExecFrom ==
  /\ ~proc.exited
  /\ proc.go = "exec"
  /\ \E readOK \in BOOLEAN, ran \in 0..NumCommands :
       proc' = IF ~readOK
               THEN [proc EXCEPT !.go = "fatal", !.exited = TRUE,
                                 !.execErr = "read error"]
               ELSE IF ran < NumCommands
               THEN [proc EXCEPT !.go = "fatal", !.exited = TRUE,
                                 !.executed = ran, !.execErr = "statement error"]
               ELSE [proc EXCEPT !.go = "send", !.executed = ran, !.execErr = "nil"]
  /\ UNCHANGED <<dbc, est>>
  /\ UNCHANGED <<weatherVars, faults, accountVars>>

\* ready <- true, on a channel with room for one value
GoReady ==
  /\ ~proc.exited
  /\ proc.go = "send"
  /\ proc.ready = 0
  /\ proc' = [proc EXCEPT !.go = "end", !.ready = 1]
  /\ UNCHANGED <<dbc, est>>
  /\ UNCHANGED <<weatherVars, faults, accountVars>>

\* main registers the handlers on the mux and builds the server
MainSetup ==
  /\ ~proc.exited
  /\ proc.main = "setup"
  /\ proc' = [proc EXCEPT !.main = "recv"]
  /\ UNCHANGED <<dbc, est>>
  /\ UNCHANGED <<weatherVars, faults, accountVars>>

\* <-ready
MainReceive ==
  /\ ~proc.exited
  /\ proc.main = "recv"
  /\ Receivable
  /\ proc' = [proc EXCEPT !.main = "listen", !.ready = 0]
  /\ UNCHANGED <<dbc, est>>
  /\ UNCHANGED <<weatherVars, faults, accountVars>>

\* log.Fatal(server.ListenAndServe()): the server listens, or the call
\* returns an error and the process exits
ListenAndServe ==
  /\ ~proc.exited
  /\ proc.main = "listen"
  /\ \E listenOK \in BOOLEAN :
       proc' = IF listenOK THEN [proc EXCEPT !.main = "serving"]
               ELSE [proc EXCEPT !.main = "fatal", !.exited = TRUE]
  /\ UNCHANGED <<dbc, est>>
  /\ UNCHANGED <<weatherVars, faults, accountVars>>

\* the listening server hands a request to its handler
ServeRequest ==
  /\ ~proc.exited
  /\ proc.main = "serving"
  /\ proc.requests < MaxRequests
  /\ proc' = [proc EXCEPT !.requests = @ + 1]
  /\ UNCHANGED <<dbc, est>>
  /\ UNCHANGED <<weatherVars, faults, accountVars>>

\* the process as main starts: GlobalConn has no DB, the goroutine and
\* main are at their first statements
StartInit ==
  /\ Quiet
  /\ dbc = "nil"
  /\ est = EstablishIdle
  /\ proc = [go |-> "start", main |-> "setup", ready |-> 0, exited |-> FALSE,
             executed |-> 0, execErr |-> "none", requests |-> 0]

StartNext ==
  \/ GoEstablish
  \/ EstablishNext
  \/ GoEstablished
  \/ GoExecFrom
  \/ GoReady
  \/ MainSetup
  \/ MainReceive
  \/ ListenAndServe
  \/ ServeRequest

StartSpec == StartInit /\ [][StartNext]_vars

\* ================================================================ claims
InsertFailures ==
  { "insert prepare error", "insert exec error", "insert scan error" }

\* C1: a request for a city whose own latest reading is younger than one
\* minute completes without a gateway call and without a write.
C1_FreshReadingNoGatewayCall ==
  \A f \in Frames :
    f.own = "fresh" => f.gwCalls = 0 /\ f.writes = 0

\* C2: FetchLocationWeather returns the scanned location and weather row
\* whenever the scan succeeds, and a nil result without error only when
\* the select had no row.
C2_FetchReturnsScannedRow ==
  \A p \in Procs :
    h[p].pc = "decide" =>
      LET o == Val(h[p].scan)
      IN  /\ o.err = "nil" =>
               /\ h[p].lr = Some(Val(o.row).location)
               /\ h[p].wr = Some(Val(o.row).weather)
          /\ h[p].lr = Nil => o.err = ErrNoRows

\* C3: a request whose lookup finds no reading of the city, or a latest
\* reading of the city that is one minute old or older, calls the gateway
\* exactly once, with the normalised name, before it responds.
C3_MissCallsGatewayOnce ==
  \A f \in Frames :
    /\ f.gwCalls <= 1
    /\ f.own \in { "none", "stale" } =>
         f.gwCalls = 1 /\ f.gwName = f.cityName

C3_Witness ==
  /\ last.pc = "done"
  /\ last.own = "stale"
  /\ last.gwCalls = 1
  /\ last.resp.kind = "json"

\* C4: the reading that the lookup for a city yields belongs to that city
\* and carries the latest timestamp among the city's own readings.
C4_LookupReadingIsOwnLatest ==
  \A p \in Procs :
    (h[p].pc = "decide" /\ Val(h[p].scan).row # Nil) =>
      LET r == Val(Val(h[p].scan).row)
      IN  /\ r.weather.location_id = r.location.id
          /\ h[p].seen = Some(r.weather.at_time)

\* C5: when the upsert of the location succeeded and the insert of the
\* reading failed, the end of UpdateCachedLocationWeather leaves the
\* locations table as it was.
C5_InsertFailureRollsBack ==
  [][\A p \in Procs :
       ( /\ h[p].pc = "deferred"
         /\ h[p].txn.loc # Nil
         /\ h[p].outcome \in InsertFailures
         /\ h'[p].pc = "idle" )
       => locations' = locations]_vars

\* C6: a committed refresh of a name that has no row makes exactly one row
\* with query_count 1; a committed refresh of a name that has a row adds 1
\* to its query_count, keeps its id and makes no second row; the rows of
\* the other names stay as they are.
C6_UpsertExact ==
  [][\A p \in Procs :
       (h[p].pc = "deferred" /\ h'[p].pc = "idle" /\ last'.committed) =>
         LET n      == h[p].cityName
             before == { l \in locations : l.city_name = n }
             after  == { l \in locations' : l.city_name = n }
         IN  /\ Cardinality(after) = 1
             /\ before = {} => \A a \in after : a.query_count = 1
             /\ \A b \in before, a \in after :
                  a.query_count = b.query_count + 1 /\ a.id = b.id
             /\ \A a \in after, l \in locations' : l.id = a.id => l = a
             /\ { l \in locations' : l.city_name # n }
                  = { l \in locations : l.city_name # n }]_vars

C6_Witness ==
  \E l \in locations : l.query_count = 3 /\ commits[l.city_name] = 3

\* C7: a gateway answer with a status code other than 200 ends the request
\* without any write, with the provider's message as the response, or the
\* generic text when the answer has no message.
C7_ProviderFailureWritesNothing ==
  \A f \in Frames :
    (f.location # Nil /\ Val(f.location).Cod # 200) =>
      /\ f.pc = "done"
      /\ f.writes = 0
      /\ f.resp.kind = "message"
      /\ f.resp.message =
           IF Val(f.location).Message # Nil
           THEN Val(Val(f.location).Message) ELSE UnknownReason

C7_Witness ==
  /\ last.location # Nil
  /\ Val(last.location).Cod = 404
  /\ last.resp.message = "city not found"
  /\ locations # {}

C9_LookupErrorIsNotStale ==
  \A f \in Frames :
    f.scanErr = "storage error" =>
      /\ f.pc = "done"
      /\ f.resp = internalServerError("storage error")
      /\ f.gwCalls = 0
      /\ f.writes = 0

C9_Witness ==
  /\ last.scanErr = "storage error"
  /\ last.resp.status = StatusInternalServerError
  /\ weather # <<>>

\* a step that ends a refresh whose transaction committed and whose result
\* was returned without error
RefreshedStep(p) ==
  /\ h[p].pc = "deferred"
  /\ h'[p].pc = "idle"
  /\ last'.outcome = "refreshed"

AppendOnly ==
  /\ Len(weather') >= Len(weather)
  /\ SubSeq(weather', 1, Len(weather)) = weather

\* C10 as stated: every successful refresh appends exactly one weather
\* row with the id of the upserted location, the provider's minimum as
\* temp_low, the provider's maximum as temp_high and the provider's labels,
\* and reports that row; no step changes or removes a weather row.
C10_ReadingIsProviderValues ==
  [][/\ AppendOnly
     /\ \A p \in Procs :
          RefreshedStep(p) =>
            /\ Len(weather') = Len(weather) + 1
            /\ LET row == weather'[Len(weather')]
                   loc == Val(h[p].location)
               IN  /\ row.location_id = Val(h[p].ret.lr).id
                   /\ row.temp_low = loc.TempMin
                   /\ row.temp_high = loc.TempMax
                   /\ row.labels = WeatherLabels(loc)
                   /\ last'.resp = sendJSON(Payload(h[p].cityName, row))]_vars

\* C10 amended: the same, with temp_low and temp_high being the provider's
\* minimum and maximum rounded to the precision of the real column.
C10_ReadingIsRoundedProviderValues ==
  [][/\ AppendOnly
     /\ \A p \in Procs :
          RefreshedStep(p) =>
            /\ Len(weather') = Len(weather) + 1
            /\ LET row == weather'[Len(weather')]
                   loc == Val(h[p].location)
               IN  /\ row.location_id = Val(h[p].ret.lr).id
                   /\ row.temp_low = ToReal(loc.TempMin)
                   /\ row.temp_high = ToReal(loc.TempMax)
                   /\ row.labels = WeatherLabels(loc)
                   /\ last'.resp = sendJSON(Payload(h[p].cityName, row))]_vars

C10_Witness ==
  /\ last.pc = "done"
  /\ last.outcome = "refreshed"
  /\ Val(last.location).TempMin # ToReal(Val(last.location).TempMin)
  /\ Len(weather) >= 2

\* C11: in every weather response that carries a reading, median_temp is
\* (low_temp + high_temp) / 2 of that reading, and city_name is the
\* normalised name of the city that was asked for.
C11_MedianIsMeanOfReported ==
  \A f \in Frames :
    f.resp.kind = "json" =>
      LET b == Val(f.resp.body)
      IN  /\ b.median_temp.den # 0
          /\ 2 * b.median_temp.num = (b.low_temp + b.high_temp) * b.median_temp.den
          /\ b.city_name = f.cityName
          /\ \E c \in CityParams : b.city_name = Title(c)

C11_Witness ==
  /\ last.resp.kind = "json"
  /\ Val(last.resp.body).low_temp < Val(last.resp.body).high_temp
  /\ Val(last.resp.body).city_name = <<"R", "e", "n", "o">>

\* C12: every request that has ended has written exactly one response;
\* within a request the gateway is called at most once, the transaction
\* is run only after a gateway answer with status 200, and at most one
\* location row and one reading are written.
C12_OneResponsePerRequest ==
  \A f \in Frames :
    /\ f.pc = "done" => f.resp.kind \in { "json", "message", "error" }
    /\ f.pc # "done" => f.resp = NoResp
    /\ f.gwCalls <= 1
    /\ f.writes <= 2
    /\ (f.txn # NoTxn \/ f.writes > 0) =>
         /\ f.gwCalls = 1
         /\ f.location # Nil
         /\ Val(f.location).Cod = 200

\* C13: when the refresh of a city commits and exactly one other refresh
\* of the same city committed since this request called the gateway (the
\* two ran concurrently), the city has exactly one location row, whose
\* query_count is 2 more than it was at the gateway call (2 for a new
\* city), and exactly two more readings refer to that row.
C13_RefreshRace ==
  LET n == last.cityName
  IN  (last.committed /\ commits[n] = Val(last.snap).commits + 2) =>
        /\ Cardinality({ l \in locations : l.city_name = n }) = 1
        /\ \A l \in locations :
             l.city_name = n => l.query_count = Val(last.snap).qc + 2
        /\ Cardinality(ReadingsOf(n, locations, weather))
             = Val(last.snap).readings + 2

C13_Witness ==
  /\ last.committed
  /\ commits[last.cityName] = Val(last.snap).commits + 2
  /\ Val(last.snap).qc = 0
  /\ Len(weather) = 2

\* the samples of a city on a day, taken from the tables: the readings of
\* the city captured on that day with both temperatures
SampleReadings(c, y, mo, d) ==
  { i \in Joined :
      /\ JoinRow(i).cname = c
      /\ Date(weather[i].at_time) = [y |-> y, mo |-> mo, d |-> d]
      /\ weather[i].temp_low # Null
      /\ weather[i].temp_high # Null }

RECURSIVE SumOfSamples(_)
SumOfSamples(I) ==
  IF I = {} THEN Float64(0)
  ELSE LET i == CHOOSE x \in I : TRUE
       IN  FAdd(Frac(weather[i].temp_low + weather[i].temp_high, 2),
                SumOfSamples(I \ { i }))

DayMean(c, y, mo, d) ==
  FDiv(SumOfSamples(SampleReadings(c, y, mo, d)),
       Cardinality(SampleReadings(c, y, mo, d)))

DaysPresent(c, y, mo) ==
  { d \in 1..DaysPerMonth : SampleReadings(c, y, mo, d) # {} }

RECURSIVE SumOfDayMeans(_, _, _, _)
SumOfDayMeans(c, y, mo, D) ==
  IF D = {} THEN Float64(0)
  ELSE LET d == CHOOSE x \in D : TRUE
       IN  FAdd(DayMean(c, y, mo, d), SumOfDayMeans(c, y, mo, D \ { d }))

TwoStageMean(c, y, mo) ==
  FDiv(SumOfDayMeans(c, y, mo, DaysPresent(c, y, mo)),
       Cardinality(DaysPresent(c, y, mo)))

\* the months (city, y, mo) in which the tables hold a reading
HistoryMonths ==
  { <<JoinRow(i).cname, Date(weather[i].at_time).y, Date(weather[i].at_time).mo>> :
      i \in Joined }

\* C14: for every city and month with a sample, MonthlyAverageTemperature
\* yields the mean over the days present of the mean of the day's samples.
C14_MonthlyAverageIsTwoStage ==
  (stat.op = "MonthlyAverageTemperature" /\ stat.err = "nil") =>
    \A k \in HistoryMonths :
      DaysPresent(k[1], k[2], k[3]) # {} =>
        /\ <<k[1], k[2], k[3], AverageDay>> \in Paths(Val(stat.temps))
        /\ Leaf(Val(stat.temps), <<k[1], k[2], k[3], AverageDay>>)
             = << TwoStageMean(k[1], k[2], k[3]) >>

\* C15: in every result of MonthlyTemperature and in the daily structure of
\* MonthlyAverageTemperature, every list that is present holds a sample.
C15_NoEmptyDayBucket ==
  /\ (stat.op = "MonthlyTemperature" /\ stat.err = "nil") =>
       \A k \in Paths(Val(stat.temps)) : Leaf(Val(stat.temps), k) # <<>>
  /\ (stat.op = "MonthlyAverageTemperature" /\ stat.err = "nil") =>
       \A k \in Paths(Val(stat.daily)) : Leaf(Val(stat.daily), k) # <<>>

\* C16: every month that MonthlyAverageTemperature averages has at least
\* one sample and at least one day, so that no divisor is zero.
C16_DivisorsAreNotZero ==
  (stat.op = "MonthlyAverageTemperature" /\ stat.err = "nil") =>
    \A k \in Months(Val(stat.daily)) :
      LET month == Val(stat.daily)[k[1]][k[2]][k[3]]
          t == MonthTotals(month, DOMAIN month)
      IN  t.samplesPerDay >= 1 /\ t.samplesPerMonth >= 1

\* the structures that the statistics call has built
Built ==
  (IF stat.temps = Nil THEN {} ELSE { Val(stat.temps) })
    \cup (IF stat.daily = Nil THEN {} ELSE { Val(stat.daily) })

\* the paths that InitialiseForDate is tried on
ProbePaths ==
  CityNames \X { FirstYear, FirstYear + 1 } \X (1..2) \X (0..DaysPerMonth)

\* C17: InitialiseForDate on a path that exists leaves the structure as it
\* is; on any path, a second call changes nothing after the first, and the
\* call keeps every list that was there and adds no path but its own.
C17_InitialiseForDateIdempotent ==
  \A q \in Built : \A k \in ProbePaths :
    LET q1 == InitialiseForDate(q, k[1], k[2], k[3], k[4])
    IN  /\ k \in Paths(q) => q1 = q
        /\ InitialiseForDate(q1, k[1], k[2], k[3], k[4]) = q1
        /\ Paths(q1) = Paths(q) \cup { k }
        /\ \A j \in Paths(q) : Leaf(q1, j) = Leaf(q, j)
        /\ k \notin Paths(q) => Leaf(q1, k) = <<>>

C17_Witness ==
  /\ stat.op = "MonthlyTemperature"
  /\ stat.temps # Nil
  /\ \E k \in Paths(Val(stat.temps)) \cap ProbePaths :
       Len(Leaf(Val(stat.temps), k)) = 2
  /\ \E k \in ProbePaths : k[4] # 0 /\ k \notin Paths(Val(stat.temps))

\* C18: db.MonthlyTemperature with an unknown filter fails with the
\* invalid-filter error and gives no result, and a stats request whose
\* only value of temp is unknown fails with that error and has no
\* temperatures.
C18_UnknownFilterFails ==
  LET bogus == <<"b", "o", "g", "u", "s">>
  IN  /\ (stat.op = "MonthlyTemperature" /\ stat.arg = bogus) =>
           stat.err = InvalidFilter(bogus) /\ stat.temps = Nil
      /\ (stat.op = "ReportWeatherStatistics"
            /\ stat.arg = <<"GET", TRUE, << bogus >> >>) =>
           /\ stat.resp.kind = "error"
           /\ stat.resp.message = InvalidFilter(bogus)

\* the values of a column in the rows of a city and a date, in the order
\* of the rows, without the NULLs
RECURSIVE ValuesOf(_, _, _, _)
ValuesOf(rows, param, c, date) ==
  IF rows = <<>> THEN <<>>
  ELSE LET r == Head(rows)
           rest == ValuesOf(Tail(rows), param, c, date)
       IN  IF r.cname = c /\ Date(r.at_time) = date /\ r[param] # Null
           THEN << Float64(r[param]) >> \o rest
           ELSE rest

\* C19: the result of MonthlyTemperature for lows (highs) holds, for every
\* city and day with a reading, the temp_low (temp_high) values of the
\* city's readings of that day that are not NULL, one entry per reading in
\* the order of the scan, and it holds no other path.
C19_SeriesBucketing ==
  (stat.op = "MonthlyTemperature" /\ stat.err = "nil") =>
    LET q == Val(stat.temps)
        param == IF stat.arg = FilterHighs THEN "temp_high" ELSE "temp_low"
        dated == { <<JoinRow(i).cname, Date(weather[i].at_time)>> : i \in Joined }
    IN  /\ stat.rows \in RowOrders
        /\ Paths(q) = { <<x[1], x[2].y, x[2].mo, x[2].d>> : x \in dated }
        /\ \A x \in dated :
             Leaf(q, <<x[1], x[2].y, x[2].mo, x[2].d>>)
               = ValuesOf(stat.rows, param, x[1], x[2])

C19_Witness ==
  /\ stat.op = "MonthlyTemperature"
  /\ stat.arg = FilterLows
  /\ stat.err = "nil"
  /\ \E k \in Paths(Val(stat.temps)) :
       /\ Len(Leaf(Val(stat.temps), k)) = 2
       /\ Leaf(Val(stat.temps), k)[1] # Leaf(Val(stat.temps), k)[2]
  /\ Cardinality(DOMAIN Val(stat.temps)) = 2

\* C20: the result of MonthlyAverageTemperature holds, for every city and
\* month of the history, the day key 0 with a list of one value and no
\* other day key, and it holds no other month.
C20_MonthlyAveragesShape ==
  (stat.op = "MonthlyAverageTemperature" /\ stat.err = "nil") =>
    LET q == Val(stat.temps)
    IN  /\ Months(q) = HistoryMonths
        /\ \A k \in HistoryMonths :
             /\ DOMAIN q[k[1]][k[2]][k[3]] = { 0 }
             /\ Len(q[k[1]][k[2]][k[3]][0]) = 1

C20_Witness ==
  /\ stat.op = "MonthlyAverageTemperature"
  /\ stat.err = "nil"
  /\ Cardinality(Months(Val(stat.temps))) = 3
  /\ Cardinality(DOMAIN Val(stat.temps)) = 2

\* the labels of the scanned rows, one after another
RECURSIVE Flatten(_)
Flatten(rows) == IF rows = <<>> THEN <<>> ELSE Head(rows) \o Flatten(Tail(rows))

\* the position at which a label is first scanned
FirstScan(flat, l) == CHOOSE i \in DOMAIN flat : flat[i] = l /\ \A j \in 1..(i - 1) : flat[j] # l

\* C21: KnownWeatherLabels returns every label that occurs in a reading,
\* each exactly once, in the order in which the scan first meets them
C21_KnownLabelsOnceInScanOrder ==
  (stat.op = "KnownWeatherLabels" /\ stat.err = "nil") =>
    LET flat == Flatten(stat.rows)
        labels == Val(stat.value)
    IN  /\ stat.rows \in LabelRows
        /\ Range(labels) = UNION { Range(weather[i].labels) : i \in DOMAIN weather }
        /\ \A i, j \in DOMAIN labels : i # j => labels[i] # labels[j]
        /\ \A i, j \in DOMAIN labels :
             i < j => FirstScan(flat, labels[i]) < FirstScan(flat, labels[j])

\* C21 witness: the scan meets Clear, Rain, Clear, Haze and the answer is
\* Clear, Rain, Haze
C21_Witness ==
  /\ stat.op = "KnownWeatherLabels"
  /\ stat.err = "nil"
  /\ Flatten(stat.rows) = <<"Clear", "Rain", "Clear", "Haze">>
  /\ stat.value = Some(<<"Clear", "Rain", "Haze">>)

\* the query_count of the row of a city, 0 when the city has no row
CountOf(c) ==
  IF \E l \in locations : l.city_name = c
  THEN (CHOOSE l \in locations : l.city_name = c).query_count
  ELSE 0

\* the hits and the committed refreshes of all cities
Events == SumOf([c \in CityNames |-> hits[c] + commits[c]], CityNames)

\* C22: TotalQueryCount returns the sum of query_count over the location
\* rows, 0 and no error on an empty table, and that sum is the number of
\* hits and committed refreshes so far
C22_TotalQueryCountIsSumOfEvents ==
  /\ TotalQueryCount(FALSE, locations) =
       [count |-> SumOf([c \in CityNames |-> CountOf(c)], CityNames), err |-> "nil"]
  /\ TotalQueryCount(FALSE, locations).count = Events
  /\ locations = {} => TotalQueryCount(FALSE, locations) = [count |-> 0, err |-> "nil"]
  /\ (stat.op = "TotalQueryCount" /\ stat.err = "nil") => stat.value = Some(Events)

\* C22 witness: a total of three over two location rows, after a refresh of
\* each of two cities
C22_Witness ==
  /\ stat.op = "TotalQueryCount"
  /\ stat.value = Some(3)
  /\ Cardinality(locations) = 2
  /\ \A c \in CityNames : hits[c] = 0

\* the ends of a weather request in an error
ErrorOutcomes ==
  { "query", "lookup error", "incr error", "gateway error", "provider failure",
    "upsert error" } \cup InsertFailures

\* C23: a weather request that ends in an error (a storage error, a gateway
\* error, a provider answer other than 200) is answered with a status
\* outside 200-299 and the message of the error.
C23_ErrorResponsesAreNot2xx ==
  \A f \in Frames :
    (f.pc = "done" /\ f.outcome \in ErrorOutcomes) =>
      /\ f.resp.status \notin 200..299
      /\ f.resp.kind = "error"
      /\ f.resp.message # ""

\* C24: a bookmark GET or POST for an account that has no bookmark
\* collection row, and a request for a user name that has no account, is
\* answered with a 2xx status and an explanatory message.
C24_EmptyResultsAreMessages ==
  \A f \in AFrames :
    (f.pc = "done" /\ f.outcome \in { "no account", "no collection" }) =>
      /\ f.resp.kind = "message"
      /\ f.resp.status \in 200..299
      /\ f.resp.message # ""

\* C25: the city parameters reno and RENO are looked up and upserted under
\* one name: no two location rows have names that differ in the case of
\* their letters only.
C25_OneRowPerCityIgnoringCase ==
  \A l1, l2 \in locations :
    ToLower(l1.city_name) = ToLower(l2.city_name) => l1 = l2

\* C26: when GlobalConn.Begin fails, the request is answered with an
\* internal error that carries the error of Begin.
C26_BeginFailureIsReported ==
  \A f \in Frames :
    (f.pc = "done" /\ f.outcome = "begin error") =>
      /\ f.resp.kind = "error"
      /\ f.resp.status = StatusInternalServerError

\* C27: a refresh is answered with a reading only when its transaction was
\* committed; when Commit fails the request is answered with an error.
C27_SuccessOnlyWhenCommitted ==
  \A f \in Frames :
    /\ (f.pc = "done" /\ f.gwCalls = 1 /\ f.resp.kind = "json") => f.committed
    /\ (f.pc = "done" /\ f.outcome = "commit error") => f.resp.kind = "error"

\* the reading that a lookup of the city takes for its latest one, for
\* every row the select of FetchLocationWeather can give first
LookupLatest(cityName) ==
  { parseRows(FetchLocationWeatherResult(o.err, o.row).query).wr :
      o \in { x \in ScanOutcomes(cityName) : x.err # "storage error" } }

\* C28: when two concurrent refreshes of a city have both committed, a
\* lookup of the city takes the reading of the transaction that committed
\* last for the city's latest reading.
C28_LookupConvergesOnLastCommit ==
  LET n == last.cityName
  IN  (last.committed /\ commits[n] = Val(last.snap).commits + 2) =>
        LookupLatest(n) = { Some(weather[Len(weather)]) }

\* C29: no step removes a location row or changes its id or its name, and
\* no step lowers the query_count of a row.
C29_LocationsPersistCountsGrow ==
  [][\A l \in locations :
       \E m \in locations' :
         /\ m.id = l.id
         /\ m.city_name = l.city_name
         /\ m.query_count >= l.query_count]_vars

\* C29 witness: the first row is still there, with a count of 2, after a
\* second row was made and the total was read
C29_Witness ==
  /\ stat.op = "TotalQueryCount"
  /\ \E l, m \in locations : l.id = 1 /\ l.query_count = 2 /\ m.id > 1

\* C30: an account row has its bookmark collection row, except while its
\* registration is between NewAccount and NewBookmarkCollection; a
\* registration whose second step failed leaves no account row behind.
C30_AccountHasCollection ==
  \A a \in accounts :
    \/ \E b \in bookmarks : b.id = a.id
    \/ \E p \in Procs : ah[p].pc = "collection" /\ ah[p].acc = Some(a)

\* C31: a request to ReportWeatherStatistics, whatever its parameters and
\* whatever the store answers, leaves the locations and weather tables and
\* every handler frame of the weather side (where the gateway is called)
\* as they were; a GET whose query string parses and carries no parameter
\* is answered with the document under status 202 and makes no select.
C31_StatsReadOnly ==
  [][stat'.op = "ReportWeatherStatistics" =>
       /\ locations' = locations
       /\ weather' = weather
       /\ nextId' = nextId
       /\ commits' = commits
       /\ hits' = hits
       /\ h' = h
       /\ last' = last
       /\ (stat'.arg[1] = "GET" /\ stat'.arg[2] /\ Keys(stat'.arg[3]) = {}) =>
            /\ stat'.resp.status = 202
            /\ stat'.resp.kind = "doc"
            /\ stat'.value = Some(0)]_vars

\* C31 witness: a request with count=query, summary=day and temp=lows was
\* answered with the three reports after three selects on a history of
\* two readings
C31_Witness ==
  /\ stat.op = "ReportWeatherStatistics"
  /\ Keys(stat.arg[3]) = { "count", "summary", "temp" }
  /\ stat.value = Some(3)
  /\ stat.resp.status = StatusOK
  /\ Len(weather) = 2

\* the entries that the claim asks for under a label: one per joined
\* reading that carries the label
Carriers(l) == { i \in Joined : l \in Range(weather[i].labels) }

\* C32: when DailyWeatherSummary returns without an error, its keys are
\* the labels of the readings whose location exists, the list of a label
\* holds exactly one entry (city, timestamp) for each such reading that
\* carries the label, and each list descends (not strictly) in timestamp.
C32_DailySummaryOneEntryPerReading ==
  (stat.op = "DailyWeatherSummary" /\ stat.err = "nil") =>
    LET summary == Val(stat.value)
    IN  /\ DOMAIN summary = UNION { Range(weather[i].labels) : i \in Joined }
        /\ \A l \in DOMAIN summary :
             /\ Len(summary[l]) = Cardinality(Carriers(l))
             /\ \A i \in Carriers(l) :
                  \E k \in DOMAIN summary[l] :
                    summary[l][k] = [CityName |-> SummaryRow(i).cname,
                                     Date |-> weather[i].at_time]
             /\ \A a, b \in DOMAIN summary[l] :
                  a < b => summary[l][a].Date >= summary[l][b].Date

\* C34: a GET to the statistics whose values of temp are all, in lower
\* case, among lows, highs and avgs is answered with a temperatures
\* object that has one entry per value, unless a select failed or a report
\* cannot be encoded: no value that passes hasParam is refused by
\* MonthlyTemperature as an invalid filter.
C34_GateAndDispatchAgree ==
  LET filters == { FilterLows, FilterHighs, FilterAverages }
  IN  (/\ stat.op = "ReportWeatherStatistics"
       /\ stat.arg[1] = "GET"
       /\ stat.arg[2]
       /\ stat.arg[3] # <<>>
       /\ \A i \in DOMAIN stat.arg[3] : ToLower(stat.arg[3][i]) \in filters) =>
        \/ /\ stat.resp.kind = "json"
           /\ HasKey(Val(stat.resp.body), "temperatures")
           /\ DOMAIN Val(stat.resp.body)["temperatures"] = Range(stat.arg[3])
        \/ stat.resp.kind = "error" /\ stat.resp.message = "storage error"
        \/ stat.resp.kind = "empty"

\* C33: every call of Establish returns.  It counts at most retryCount
\* failures before the last one and sleeps the cooldown once per counted
\* failure; it returns nil at the first ping that succeeds, with a handle
\* in place, after as many failed attempts as it counted; and it returns
\* an error only as the error of its last attempt, after exactly
\* retryCount + 1 failed attempts, failures of sql.Open and of Ping taken
\* together.
C33_EstablishBoundedRetry ==
  /\ [](/\ est.attempts <= est.retryCount
        /\ Len(est.fails) <= est.retryCount + 1
        /\ est.slept <= est.retryCount * est.cooldown
        /\ est.pc = "done" =>
             /\ est.slept = est.attempts * est.cooldown
             /\ \/ /\ est.err = "nil"
                   /\ dbc = "handle"
                   /\ Len(est.fails) = est.attempts
                \/ /\ Len(est.fails) = est.retryCount + 1
                   /\ est.attempts = est.retryCount
                   /\ est.err = est.fails[Len(est.fails)] \o " error")
  /\ <>(est.pc = "done")

\* C33 witness: Establish(2, c) returned the error of its third attempt, a
\* failed ping, after an attempt that failed in sql.Open
C33_Witness ==
  /\ est.pc = "done"
  /\ est.retryCount = 2
  /\ est.err = "ping error"
  /\ Len(est.fails) = 3
  /\ est.fails[1] = "open"
  /\ est.slept = 2 * est.cooldown

\* C35: main is past its receive from ready, listening or serving a
\* request, only when Establish has returned nil and ExecFrom has run
\* every command of the script without an error; when Establish or
\* ExecFrom has failed the server is not listening and no request was
\* served, and the process has exited once the goroutine has seen the
\* error.
C35_ListenAfterDatabaseReady ==
  /\ (proc.main \in { "listen", "serving" } \/ proc.requests > 0) =>
       /\ est.pc = "done"
       /\ est.err = "nil"
       /\ dbc = "handle"
       /\ proc.execErr = "nil"
       /\ proc.executed = NumCommands
  /\ ((est.pc = "done" /\ est.err # "nil") \/ proc.execErr \notin { "none", "nil" }) =>
       /\ proc.main \in { "setup", "recv" }
       /\ proc.requests = 0
       /\ proc.go # "establish" => proc.exited

\* C35 witness: the server has served a request after a start in which
\* the first attempt to reach the database failed
C35_Witness ==
  /\ proc.main = "serving"
  /\ proc.requests > 0
  /\ est.attempts > 0
  /\ ~proc.exited

====
